---- MODULE Spec2Model ----
(***************************************************************************)
(* Mini Explorer: the log-line pipeline of the content script.             *)
(*                                                                         *)
(*   dedup.js    lineSignature, isContextualDuplicate, markContext         *)
(*   explorer.js textFrom, the recognizers, parseLine, applyEvent,         *)
(*               processNode, window.__miniExplorer.clear                  *)
(*   players.js  ensurePlayer, addResources, spendResources, clearPlayers  *)
(*   dice.js     recordDice, clearDice                                     *)
(*                                                                         *)
(* Strings are TLA+ strings; a regular expression of the source is an      *)
(* operator that searches the string the way the expression does.          *)
(***************************************************************************)
EXTENDS Integers, Sequences, FiniteSets, TLC

(***************************************************************************)
(* Bounds of the model.                                                    *)
(***************************************************************************)
\* longest host log the model lets the page grow
MaxLog == 3
\* how many times the debug surface's clear() is called
MaxClears == 1
\* longest host log of a session in which clear() is called
MaxClearLog == 2
\* how many elements the host inserts after boot in a page specification
MaxInserts == 2
\* the most cards a player holds in the specification of the aggregates
MaxHold == 3
\* how many dice sums are recorded between two clears in the specification of
\* the aggregates
MaxRolls == 3
\* the most dotted segments between the stem and the extension of a file name
\* handed to canonicalizeBasename
MaxSegments == 2
\* the most images of a line handed to lineSignature
MaxIcons == 2
\* the most added nodes of one mutation batch
MaxBatch == 2

(***************************************************************************)
(* Characters and strings.                                                 *)
(***************************************************************************)
\* null: no preceding candidate sibling, no event, no dice sum
None == "<null>"

\* !x for a string or null
Falsy(x) == x = None \/ x = ""

Char(s, i) == SubSeq(s, i, i)

\* the characters the model's strings are made of, in code-unit order
AsciiChars == " #,-./0123456789:<=>?@ABCDEFGHIJKLMNOPQRSTUVWXYZ_abcdefghijklmnopqrstuvwxyz|"

UpperChars == "ABCDEFGHIJKLMNOPQRSTUVWXYZ"
LowerChars == "abcdefghijklmnopqrstuvwxyz"
DigitChars == "0123456789"
HexChars == "0123456789abcdefABCDEF"

InChars(c, cs) == \E i \in 1..Len(cs) : Char(cs, i) = c

PosIn(c, cs) == CHOOSE i \in 1..Len(cs) : Char(cs, i) = c

CharCode(c) == IF InChars(c, AsciiChars) THEN PosIn(c, AsciiChars) ELSE 0

IsDigit(c) == InChars(c, DigitChars)
IsHexChar(c) == InChars(c, HexChars)
IsAlnum(c) == InChars(c, DigitChars) \/ InChars(c, LowerChars) \/ InChars(c, UpperChars)
\* \w of a JavaScript regular expression
IsWordChar(c) == IsAlnum(c) \/ c = "_"
\* \s of a JavaScript regular expression (the model's strings hold spaces and
\* line feeds only)
IsSpace(c) == c = " " \/ c = "\n"

LowerChar(c) == IF InChars(c, UpperChars) THEN Char(LowerChars, PosIn(c, UpperChars)) ELSE c

RECURSIVE ToLower(_)
\* String.prototype.toLowerCase, and the i flag of a regular expression
ToLower(s) == IF s = "" THEN "" ELSE LowerChar(Char(s, 1)) \o ToLower(SubSeq(s, 2, Len(s)))

AllHex(s) == \A i \in 1..Len(s) : IsHexChar(Char(s, i))

AllAlnum(s) == \A i \in 1..Len(s) : IsAlnum(Char(s, i))

StartsWithAt(s, i, pat) == /\ i >= 1
                           /\ i + Len(pat) - 1 <= Len(s)
                           /\ SubSeq(s, i, i + Len(pat) - 1) = pat

\* /pat/.test(s) for a literal pattern
Contains(s, pat) == \E i \in 1..Len(s) : StartsWithAt(s, i, pat)

\* /pat/i.test(s) for a literal pattern
ContainsI(s, pat) == Contains(ToLower(s), ToLower(pat))

\* /\bpat\b/i.test(s) for a literal pattern that starts and ends with a word
\* character: a match needs a non-word character or the string's edge on both sides
ContainsWordI(s, pat) ==
  LET ls == ToLower(s)
      lp == ToLower(pat)
  IN \E i \in 1..Len(ls) :
       /\ StartsWithAt(ls, i, lp)
       /\ (i = 1 \/ ~IsWordChar(Char(ls, i - 1)))
       /\ (i + Len(lp) > Len(ls) \/ ~IsWordChar(Char(ls, i + Len(lp))))

RECURSIVE SplitOn(_, _)
\* String.prototype.split on a set of one-character separators given as a string
SplitOn(s, seps) ==
  IF \A i \in 1..Len(s) : ~InChars(Char(s, i), seps)
  THEN <<s>>
  ELSE LET k == CHOOSE i \in 1..Len(s) :
                  /\ InChars(Char(s, i), seps)
                  /\ \A j \in 1..(i - 1) : ~InChars(Char(s, j), seps)
       IN <<SubSeq(s, 1, k - 1)>> \o SplitOn(SubSeq(s, k + 1, Len(s)), seps)

LastOf(q) == q[Len(q)]

RECURSIVE JoinWith(_, _)
\* Array.prototype.join
JoinWith(q, sep) ==
  IF Len(q) = 0 THEN ""
  ELSE IF Len(q) = 1 THEN q[1]
  ELSE q[1] \o sep \o JoinWith(Tail(q), sep)

RECURSIVE StrLess(_, _)
\* a < b in the code-unit order Array.prototype.sort uses for strings
StrLess(a, b) ==
  IF b = "" THEN FALSE
  ELSE IF a = "" THEN TRUE
  ELSE IF Char(a, 1) = Char(b, 1) THEN StrLess(SubSeq(a, 2, Len(a)), SubSeq(b, 2, Len(b)))
  ELSE CharCode(Char(a, 1)) < CharCode(Char(b, 1))

RECURSIVE InsertSorted(_, _)
InsertSorted(q, x) ==
  IF q = <<>> THEN <<x>>
  ELSE IF StrLess(x, q[1]) THEN <<x>> \o q
  ELSE <<q[1]>> \o InsertSorted(Tail(q), x)

RECURSIVE SortStrings(_)
\* Array.prototype.sort with the default comparison
SortStrings(q) == IF q = <<>> THEN <<>> ELSE InsertSorted(SortStrings(Tail(q)), q[1])

RECURSIVE ParseDigits(_, _)
\* parseInt(s, 10) of a string of decimal digits
ParseDigits(s, acc) ==
  IF s = "" THEN acc
  ELSE ParseDigits(SubSeq(s, 2, Len(s)), acc * 10 + (PosIn(Char(s, 1), DigitChars) - 1))

(***************************************************************************)
(* config.js                                                               *)
(***************************************************************************)
RESOURCE_KEYS == <<"wood", "brick", "sheep", "wheat", "ore">>

ResourceSet == {RESOURCE_KEYS[i] : i \in 1..Len(RESOURCE_KEYS)}

\* the literal each resource kind's pattern searches an image source for
IMAGE_HINTS == [wood |-> "card_lumber", brick |-> "card_brick", sheep |-> "card_wool",
                wheat |-> "card_grain", ore |-> "card_ore"]

CandidateKeywords == {"rolled", "got", "gave", "and got", "wants to give", "placed a",
                      "built a", "bought", "discarded", "stole", "took from bank",
                      "received starting resources"}

\* CANDIDATE_LINE_REGEX.test(text)
CANDIDATE_LINE_REGEX(text) == \E kw \in CandidateKeywords : ContainsI(text, kw)

(***************************************************************************)
(* A node of the host page: its extracted text and the resolved sources of *)
(* the images it contains, in document order.                              *)
(***************************************************************************)
RECURSIVE TrimLeft(_)
TrimLeft(s) == IF s # "" /\ IsSpace(Char(s, 1)) THEN TrimLeft(SubSeq(s, 2, Len(s))) ELSE s

RECURSIVE TrimRight(_)
TrimRight(s) == IF s # "" /\ IsSpace(Char(s, Len(s))) THEN TrimRight(SubSeq(s, 1, Len(s) - 1)) ELSE s

\* (node.innerText || node.textContent || '').trim()
textFrom(node) == TrimRight(TrimLeft(node.text))

\* lineText.split(/\s+/)[0]
FirstToken(lineText) ==
  IF \A i \in 1..Len(lineText) : ~IsSpace(Char(lineText, i))
  THEN lineText
  ELSE LET k == CHOOSE i \in 1..Len(lineText) :
                  /\ IsSpace(Char(lineText, i))
                  /\ \A j \in 1..(i - 1) : ~IsSpace(Char(lineText, j))
       IN SubSeq(lineText, 1, k - 1)

(***************************************************************************)
(* dedup.js: signatures                                                    *)
(***************************************************************************)
\* /^([^.]+?)(?:\.[0-9a-f]{6,})+\.([a-z0-9]+)$/i on the dot-separated parts:
\* a non-empty stem, one or more runs of 6+ hex characters, an alphanumeric
\* extension
HashedNameMatch(parts) ==
  /\ Len(parts) >= 3
  /\ parts[1] # ""
  /\ \A i \in 2..(Len(parts) - 1) : Len(parts[i]) >= 6 /\ AllHex(parts[i])
  /\ LastOf(parts) # "" /\ AllAlnum(LastOf(parts))

canonicalizeBasename(basename) ==
  LET parts == SplitOn(basename, ".")
  IN IF HashedNameMatch(parts) THEN parts[1] \o "." \o LastOf(parts)
     ELSE IF Len(parts) > 2 THEN parts[1] \o "." \o LastOf(parts)
     ELSE basename

\* src.split(/[?#]/)[0].split('/').pop()
Basename(src) == LastOf(SplitOn(SplitOn(src, "?#")[1], "/"))

RECURSIVE CleanedParts(_)
\* the loop of imageSignaturesForNode: sources without a basename are skipped
CleanedParts(imgs) ==
  IF imgs = <<>> THEN <<>>
  ELSE LET src == imgs[1]
           cleaned == Basename(src)
       IN IF src = "" \/ cleaned = "" THEN CleanedParts(Tail(imgs))
          ELSE <<canonicalizeBasename(ToLower(cleaned))>> \o CleanedParts(Tail(imgs))

\* mutant: the canonical names are joined in document order
imageSignaturesForNode_unsorted(node) == JoinWith(CleanedParts(node.imgs), ",")

imageSignaturesForNode(node) == JoinWith(SortStrings(CleanedParts(node.imgs)), ",")

lineSignature(lineText, node) == lineText \o " | imgs:" \o imageSignaturesForNode(node)

PairKey(prevSig, currentSig) == prevSig \o ">>" \o currentSig

(***************************************************************************)
(* explorer.js: recognizers.  An event is a record of one shape; the       *)
(* fields a variant does not carry hold None, 0 or the empty value.        *)
(***************************************************************************)
NoResources == [k \in ResourceSet |-> 0]

NoEvent == [type |-> None, player |-> None, resources |-> NoResources, diceSum |-> 0, items |-> <<>>]

\* mutant: a kind is counted once however many of its images the line has
CountMatching_capped(imgs, pat) ==
  IF \E i \in 1..Len(imgs) : ContainsI(imgs[i], pat) THEN 1 ELSE 0

\* the number of images whose source matches pattern pat
RECURSIVE CountMatching(_, _)
CountMatching(imgs, pat) ==
  IF imgs = <<>> THEN 0
  ELSE (IF ContainsI(imgs[1], pat) THEN 1 ELSE 0) + CountMatching(Tail(imgs), pat)

countResourceImages(container) == [k \in ResourceSet |-> CountMatching(container.imgs, IMAGE_HINTS[k])]

\* src.match(/dice_(\d+)/i): the digits after the leftmost "dice_" that a
\* digit follows, or None
DiceMatch(src) ==
  LET ls == ToLower(src)
      Hit(i) == StartsWithAt(ls, i, "dice_") /\ i + 5 <= Len(ls) /\ IsDigit(Char(ls, i + 5))
  IN IF \E i \in 1..Len(ls) : Hit(i)
     THEN LET i == CHOOSE j \in 1..Len(ls) : Hit(j) /\ \A h \in 1..(j - 1) : ~Hit(h)
              e == CHOOSE j \in (i + 5)..Len(ls) :
                     /\ \A h \in (i + 5)..j : IsDigit(Char(ls, h))
                     /\ (j = Len(ls) \/ ~IsDigit(Char(ls, j + 1)))
          IN SubSeq(ls, i + 5, e)
     ELSE None

RECURSIVE DiceValues(_)
DiceValues(imgs) ==
  IF imgs = <<>> THEN <<>>
  ELSE LET m == DiceMatch(imgs[1])
       IN (IF m = None THEN <<>> ELSE <<ParseDigits(m, 0)>>) \o DiceValues(Tail(imgs))

RECURSIVE SumSeq(_)
SumSeq(q) == IF q = <<>> THEN 0 ELSE q[1] + SumSeq(Tail(q))

\* the null getDiceSum returns when the node has no die image
NoSum == -1

\* mutant: only the first die face is read
getDiceSum_firstDie(node) ==
  LET diceValues == DiceValues(node.imgs)
  IN IF Len(diceValues) > 0 THEN diceValues[1] ELSE NoSum

getDiceSum(node) ==
  LET diceValues == DiceValues(node.imgs)
  IN IF Len(diceValues) > 0 THEN SumSeq(diceValues) ELSE NoSum

\* /^<item>_[^\.]+\.[a-z0-9]+\.svg/i.test(file)
ItemFileMatch(file, item) ==
  LET parts == SplitOn(ToLower(file), ".")
      stem == item \o "_"
  IN /\ Len(parts) >= 3
     /\ StartsWithAt(parts[1], 1, stem) /\ Len(parts[1]) > Len(stem)
     /\ parts[2] # "" /\ AllAlnum(parts[2])
     /\ StartsWithAt(parts[3], 1, "svg")

ItemKinds == <<"road", "settlement", "city">>

RECURSIVE AddItems(_, _, _)
\* the three tests of one image, each adding its item to the Set
AddItems(items, file, k) ==
  IF k > Len(ItemKinds) THEN items
  ELSE AddItems(IF ItemFileMatch(file, ItemKinds[k])
                   /\ \A i \in 1..Len(items) : items[i] # ItemKinds[k]
                THEN Append(items, ItemKinds[k]) ELSE items,
                file, k + 1)

RECURSIVE PlacedItems(_, _)
PlacedItems(imgs, items) ==
  IF imgs = <<>> THEN items
  ELSE LET file == LastOf(SplitOn(imgs[1], "/"))
       IN IF ContainsI(file, "icon_bot") THEN PlacedItems(Tail(imgs), items)
          ELSE PlacedItems(Tail(imgs), AddItems(items, file, 1))

\* the items of a Set in insertion order
getPlacedItems(node) == PlacedItems(node.imgs, <<>>)

HasAnyResource(resources) == \E k \in ResourceSet : resources[k] > 0

parseDiceRollEvent(lineText, node) ==
  IF ~ContainsWordI(lineText, "rolled") THEN NoEvent
  ELSE LET sum == getDiceSum(node)
       IN IF sum = NoSum THEN NoEvent
          ELSE [NoEvent EXCEPT !.type = "dice_roll", !.diceSum = sum]

parseStartingResourcesEvent(lineText, node) ==
  IF ~ContainsI(lineText, "received starting resources") THEN NoEvent
  ELSE LET playerName == FirstToken(lineText)
           resources == countResourceImages(node)
       IN IF playerName = "" \/ ~HasAnyResource(resources) THEN NoEvent
          ELSE [NoEvent EXCEPT !.type = "starting_resources", !.player = playerName,
                               !.resources = resources]

parseGotEvent(lineText, node) ==
  IF ~ContainsWordI(lineText, "got") THEN NoEvent
  ELSE LET playerName == FirstToken(lineText)
           resources == countResourceImages(node)
       IN IF playerName = "" \/ ~HasAnyResource(resources) THEN NoEvent
          ELSE [NoEvent EXCEPT !.type = "got", !.player = playerName, !.resources = resources]

\* mutant: a build line without a classified image is declined
parseBuildEvent_needsItems(lineText, node) ==
  IF ~ContainsWordI(lineText, "built a") THEN NoEvent
  ELSE LET playerName == FirstToken(lineText)
       IN IF playerName = "" \/ getPlacedItems(node) = <<>> THEN NoEvent
          ELSE [NoEvent EXCEPT !.type = "build", !.player = playerName,
                               !.items = getPlacedItems(node)]

parseBuildEvent(lineText, node) ==
  IF ~ContainsWordI(lineText, "built a") THEN NoEvent
  ELSE LET playerName == FirstToken(lineText)
       IN IF playerName = "" THEN NoEvent
          ELSE [NoEvent EXCEPT !.type = "build", !.player = playerName,
                               !.items = getPlacedItems(node)]

\* mutant: the got recognizer is registered ahead of the dice recognizer
eventParsers_gotFirst == <<"got", "dice_roll", "starting_resources", "build">>

\* the registry, in registration order
eventParsers == <<"dice_roll", "starting_resources", "got", "build">>

ParserNames == {"dice_roll", "starting_resources", "got", "build"}

\* parse(lineText, node) for the recognizer registered under a name
Recognize(name, lineText, node) ==
  IF name = "dice_roll" THEN parseDiceRollEvent(lineText, node)
  ELSE IF name = "starting_resources" THEN parseStartingResourcesEvent(lineText, node)
  ELSE IF name = "got" THEN parseGotEvent(lineText, node)
  ELSE parseBuildEvent(lineText, node)

\* mutant: an exception of a recognizer ends the loop
ParseFrom_abort(k, lineText, node, throws) ==
  LET Upto(j) == {eventParsers[i] : i \in k..j}
      hits == {j \in k..Len(eventParsers) :
                 /\ Upto(j) \cap throws = {}
                 /\ Recognize(eventParsers[j], lineText, node) # NoEvent}
  IN IF hits = {} THEN NoEvent
     ELSE Recognize(eventParsers[CHOOSE j \in hits : \A h \in hits : j <= h], lineText, node)

RECURSIVE ParseFrom(_, _, _, _)
\* the loop of parseLine from recognizer number k on; the recognizers named in
\* throws raise an exception, which the loop catches and logs before it goes on
ParseFrom(k, lineText, node, throws) ==
  IF k > Len(eventParsers) THEN NoEvent
  ELSE IF eventParsers[k] \in throws THEN ParseFrom(k + 1, lineText, node, throws)
  ELSE LET evt == Recognize(eventParsers[k], lineText, node)
       IN IF evt # NoEvent THEN evt ELSE ParseFrom(k + 1, lineText, node, throws)

\* the sets of recognizers that throw on one line: none, or any one of them
ThrowSets == {{}} \cup {{name} : name \in ParserNames}

\* the first recognizer that returns an event wins
parseLine(lineText, node) == ParseFrom(1, lineText, node, {})

(***************************************************************************)
(* The log lines the host page shows.                                      *)
(***************************************************************************)
Lines == <<
  [text |-> "Alice got", imgs |-> <<"/img/card_lumber.4f5a8b9c.svg">>],
  [text |-> "Bob rolled", imgs |-> <<"/img/dice_3.svg", "/img/dice_4.svg">>],
  [text |-> "Alice built a", imgs |-> <<"/img/road_red.33012eed.svg">>],
  [text |-> "Bob received starting resources",
   imgs |-> <<"/img/card_grain.svg", "/img/card_brick.svg?v=2">>],
  [text |-> "Bob gave", imgs |-> <<"/img/card_ore.svg">>],
  [text |-> " Carol: hello ", imgs |-> <<>>],
  [text |-> "Dave got",
   imgs |-> <<"/img/card_lumber.svg", "/img/card_brick.svg", "/img/card_wool.svg",
              "/img/card_grain.svg">>],
  [text |-> "Dave built a", imgs |-> <<"/img/settlement_blue.svg">>],
  [text |-> "Dave built a", imgs |-> <<"/img/settlement_blue.7bc1d2e3.svg">>],
  [text |-> "Carol got",
   imgs |-> <<"/img/card_lumber.svg", "/img/card_lumber.svg", "/img/card_brick.svg">>],
  [text |-> "Carol got",
   imgs |-> <<"/img/card_brick.svg", "/img/card_lumber.svg", "/img/card_lumber.svg">>],
  [text |-> "Bob rolled and got",
   imgs |-> <<"/img/dice_2.svg", "/img/dice_6.svg", "/img/card_ore.svg">>],
  [text |-> "Carol built a",
   imgs |-> <<"/img/road_red.33012eed.svg", "/img/road_red.33012eed.svg">>],
  [text |-> "Bob rolled", imgs |-> <<"/img/dice_1.svg">>],
  [text |-> "Eve got", imgs |-> <<>>],
  [text |-> " \n ", imgs |-> <<"/img/icon_bot.svg">>] >>

\* the catalogue entries that are text nodes, not elements
TextNodeIds == {15}

\* the rows of the game log the host shows in a session of the main
\* specification, and those of a page specification
LineIds == 1..6
PageLineIds == {2} \cup 7..12
\* the nodes the host inserts in a session of the live specification
LiveLineIds == {6, 10} \cup 13..Len(Lines)

\* container elements: the rows each holds as child elements, in order
Blocks == << <<1, 2>>, <<7, 9>> >>

RECURSIVE BlockImgs(_)
BlockImgs(kids) == IF kids = <<>> THEN <<>> ELSE Lines[kids[1]].imgs \o BlockImgs(Tail(kids))

\* a container as processNode sees it: innerText joins the rows' texts with
\* line feeds, querySelectorAll('img') finds the images of every row
BlockNode(kids) ==
  [text |-> JoinWith([k \in 1..Len(kids) |-> Lines[kids[k]].text], "\n"),
   imgs |-> BlockImgs(kids)]

\* every element of the catalogue: the rows, then the containers
Nodes == Lines \o [b \in 1..Len(Blocks) |-> BlockNode(Blocks[b])]

NodeIds == 1..Len(Nodes)
BlockIds == (Len(Lines) + 1)..Len(Nodes)

\* the rows inside element l: none for a row, the kids of a container
KidsOf(l) == IF l \in BlockIds THEN Blocks[l - Len(Lines)] ELSE <<>>

\* what the pipeline derives from an element; none of it reads the program's
\* state, so each is tabulated once (@@ makes the table explicit)
LineText == [l \in NodeIds |-> textFrom(Nodes[l])] @@ <<>>
IsCandidate == [l \in NodeIds |-> LineText[l] # "" /\ CANDIDATE_LINE_REGEX(LineText[l])] @@ <<>>
LineSig == [l \in NodeIds |-> lineSignature(LineText[l], Nodes[l])] @@ <<>>
LineEvent == [l \in NodeIds |-> parseLine(LineText[l], Nodes[l])] @@ <<>>
\* the same when the recognizers named in a set raise an exception
LineEventCatching ==
  [x \in NodeIds \X ThrowSets |-> ParseFrom(1, LineText[x[1]], Nodes[x[1]], x[2])] @@ <<>>

(***************************************************************************)
(* players.js and dice.js: the aggregates.  The players Map is a function  *)
(* whose domain is the set of names that have a record.                    *)
(***************************************************************************)
NewRecord == [wood |-> 0, brick |-> 0, sheep |-> 0, wheat |-> 0, ore |-> 0, total |-> 0]

NoPlayers == [n \in {} |-> NewRecord]

ensurePlayer(pl, name) ==
  IF name \in DOMAIN pl THEN pl
  ELSE [n \in (DOMAIN pl) \cup {name} |-> IF n = name THEN NewRecord ELSE pl[n]]

RECURSIVE AddKeys(_, _, _)
\* the loop of addResources over RESOURCE_KEYS, from key number k on
AddKeys(rec, resources, k) ==
  IF k > Len(RESOURCE_KEYS) THEN rec
  ELSE LET key == RESOURCE_KEYS[k]
           n == resources[key]
       IN AddKeys(IF n # 0
                  THEN [rec EXCEPT ![key] = rec[key] + n, !.total = rec.total + n]
                  ELSE rec,
                  resources, k + 1)

addResources(pl, name, resources) ==
  LET p == ensurePlayer(pl, name)
  IN [p EXCEPT ![name] = AddKeys(p[name], resources, 1)]

Min(a, b) == IF a <= b THEN a ELSE b
Max(a, b) == IF a >= b THEN a ELSE b

\* mutant: the spend is not clamped to what the player holds
SpendRemove_unclamped(have, want) == want

\* how much of one kind spendResources removes
SpendRemove(have, want) == Min(have, want)

\* an object without keys: the spent map before the loop
NoSpent == [k \in {} |-> 0]

\* obj[key] = n
PutKey(obj, key, n) == [k \in (DOMAIN obj) \cup {key} |-> IF k = key THEN n ELSE obj[k]]

RECURSIVE SpendKeys(_, _, _, _)
\* the loop of spendResources: the record after the loop, totalRemoved and
\* the spent map
SpendKeys(rec, costs, k, acc) ==
  IF k > Len(RESOURCE_KEYS) THEN [rec |-> rec, totalRemoved |-> acc.totalRemoved,
                                  spent |-> acc.spent]
  ELSE LET key == RESOURCE_KEYS[k]
           want == costs[key]
           have == rec[key]
           remove == SpendRemove(have, want)
       IN IF want = 0 \/ remove <= 0 THEN SpendKeys(rec, costs, k + 1, acc)
          ELSE SpendKeys([rec EXCEPT ![key] = have - remove], costs, k + 1,
                         [totalRemoved |-> acc.totalRemoved + remove,
                          spent |-> PutKey(acc.spent, key, remove)])

\* mutant: a spend empties the total
SpendTotal_reset(total, totalRemoved) == IF totalRemoved # 0 THEN 0 ELSE total

\* the total spendResources stores after removing totalRemoved
SpendTotal(total, totalRemoved) ==
  IF totalRemoved # 0 THEN Max(0, total - totalRemoved) ELSE total

\* mutant: a player left without a card loses the record
spendResources_dropEmpty(pl, name, costs) ==
  LET p == ensurePlayer(pl, name)
      r == SpendKeys(p[name], costs, 1, [totalRemoved |-> 0, spent |-> NoSpent])
      total == SpendTotal(r.rec.total, r.totalRemoved)
  IN IF total = 0 THEN [n \in (DOMAIN p) \ {name} |-> p[n]]
     ELSE [p EXCEPT ![name] = [r.rec EXCEPT !.total = total]]

spendResources(pl, name, costs) ==
  LET p == ensurePlayer(pl, name)
      r == SpendKeys(p[name], costs, 1, [totalRemoved |-> 0, spent |-> NoSpent])
  IN [p EXCEPT ![name] = [r.rec EXCEPT !.total = SpendTotal(r.rec.total, r.totalRemoved)]]

\* the object spendResources returns
SpentBy(pl, name, costs) ==
  SpendKeys(ensurePlayer(pl, name)[name], costs, 1,
            [totalRemoved |-> 0, spent |-> NoSpent]).spent

clearPlayers == NoPlayers

DiceSums == 2..12

ZeroCounts == [i \in DiceSums |-> 0]

\* _counts[sum] = (_counts[sum] || 0) + 1
BumpCount(c, sum) == PutKey(c, sum, (IF sum \in DOMAIN c THEN c[sum] ELSE 0) + 1)

\* mutant: the range test is missing
recordDice_unchecked(c, sum) == BumpCount(c, sum)

recordDice(c, sum) ==
  IF sum >= 2 /\ sum <= 12 THEN BumpCount(c, sum) ELSE c

clearDice == ZeroCounts

(***************************************************************************)
(* explorer.js: applyEvent, the state it leaves.                           *)
(***************************************************************************)
Cost(w, b, s, g, o) == [wood |-> w, brick |-> b, sheep |-> s, wheat |-> g, ore |-> o]

\* the cost table of the build case
ItemCost(item) ==
  IF item = "road" THEN Cost(1, 1, 0, 0, 0)
  ELSE IF item = "settlement" THEN Cost(1, 1, 1, 1, 0)
  ELSE IF item = "city" THEN Cost(0, 0, 0, 2, 3)
  ELSE Cost(0, 0, 0, 0, 0)

RECURSIVE SpendItems(_, _, _)
SpendItems(pl, name, items) ==
  IF items = <<>> THEN pl
  ELSE SpendItems(IF items[1] \in {"road", "settlement", "city"}
                  THEN spendResources(pl, name, ItemCost(items[1]))
                  ELSE pl,
                  name, Tail(items))

\* mutant: an event of a type the switch does not know is treated as got
ApplyPlayers_defaultAdds(pl, evt) ==
  IF evt.type = "build"
  THEN (IF ~Falsy(evt.player) THEN SpendItems(pl, evt.player, evt.items) ELSE pl)
  ELSE IF evt.type = "dice_roll" THEN pl
  ELSE (IF ~Falsy(evt.player) THEN addResources(pl, evt.player, evt.resources) ELSE pl)

ApplyPlayers(pl, evt) ==
  IF evt.type \in {"starting_resources", "got"}
  THEN (IF ~Falsy(evt.player) THEN addResources(pl, evt.player, evt.resources) ELSE pl)
  ELSE IF evt.type = "build"
  THEN (IF ~Falsy(evt.player) THEN SpendItems(pl, evt.player, evt.items) ELSE pl)
  ELSE pl

\* mutant: an event of any other type counts as a roll of 7
ApplyDice_always(c, evt) == recordDice(c, IF evt.type = "dice_roll" THEN evt.diceSum ELSE 7)

ApplyDice(c, evt) == IF evt.type = "dice_roll" THEN recordDice(c, evt.diceSum) ELSE c

\* which of the two render calls that end applyEvent throws, if any
RenderOutcomes == {"ok", "overlay", "graph"}

NoPushes == <<>>

\* renderOverlay(playerEntries()) then renderDiceGraph(getDiceCounts()): the
\* values handed to the presentation layer, in call order; a call that throws
\* hands over nothing and ends the sequence
RenderPushes(pl, c, renderThrows) ==
  IF renderThrows = "overlay" THEN NoPushes
  ELSE IF renderThrows = "graph" THEN <<[to |-> "overlay", players |-> pl, counts |-> ZeroCounts]>>
  ELSE <<[to |-> "overlay", players |-> pl, counts |-> ZeroCounts],
         [to |-> "graph", players |-> NoPlayers, counts |-> c]>>

\* mutant: the overlay is rendered before the event changes the state
applyEvent_renderFirst(pl, c, evt, renderThrows) ==
  [players |-> ApplyPlayers(pl, evt), counts |-> ApplyDice(c, evt),
   pushes |-> RenderPushes(pl, c, renderThrows)]

\* applyEvent: the aggregates it leaves and what it pushes
applyEvent(pl, c, evt, renderThrows) ==
  LET pl2 == ApplyPlayers(pl, evt)
      c2 == ApplyDice(c, evt)
  IN [players |-> pl2, counts |-> c2, pushes |-> RenderPushes(pl2, c2, renderThrows)]

(***************************************************************************)
(* dedup.js: the duplicate filter over the signature memory.               *)
(***************************************************************************)
\* mutant: a seen line without a preceding candidate is let through
isContextualDuplicate_noFallback(seen, pairs, currentSig, prevSig) ==
  IF currentSig \notin seen THEN FALSE
  ELSE IF Falsy(prevSig) THEN FALSE
  ELSE IF PairKey(prevSig, currentSig) \notin pairs THEN FALSE
  ELSE TRUE

\* mutant: the missing-context test comes before the first-sight test
isContextualDuplicate_ctxFirst(seen, pairs, currentSig, prevSig) ==
  IF Falsy(prevSig) THEN TRUE
  ELSE IF currentSig \notin seen THEN FALSE
  ELSE IF PairKey(prevSig, currentSig) \notin pairs THEN FALSE
  ELSE TRUE

\* mutant: the global signature set alone decides, as in the superseded filter
isContextualDuplicate_global(seen, pairs, currentSig, prevSig) ==
  currentSig \in seen

\* mutant: a seen line with a seen adjacency is let through
isContextualDuplicate_pairAllow(seen, pairs, currentSig, prevSig) ==
  IF currentSig \notin seen THEN FALSE
  ELSE IF Falsy(prevSig) THEN TRUE
  ELSE IF PairKey(prevSig, currentSig) \notin pairs THEN FALSE
  ELSE FALSE

\* mutant: nothing is a duplicate
isContextualDuplicate_never(seen, pairs, currentSig, prevSig) == FALSE

isContextualDuplicate(seen, pairs, currentSig, prevSig) ==
  IF currentSig \notin seen THEN FALSE
  ELSE IF Falsy(prevSig) THEN TRUE
  ELSE IF PairKey(prevSig, currentSig) \notin pairs THEN FALSE
  ELSE TRUE

\* mutant: only the latest signature is remembered
MarkSignature_latestOnly(seen, currentSig) == {currentSig}

\* mutant: the signature is not recorded
MarkSignature_dropped(seen, currentSig) == seen

\* markContext, the signature set it leaves
MarkSignature(seen, currentSig) == seen \cup {currentSig}

\* mutant: the adjacency key is not recorded
MarkPair_dropped(pairs, currentSig, prevSig) == pairs

\* mutant: the adjacency key is built the wrong way round
MarkPair_reversed(pairs, currentSig, prevSig) ==
  IF ~Falsy(prevSig) THEN pairs \cup {PairKey(currentSig, prevSig)} ELSE pairs

\* markContext, the adjacency set it leaves
MarkPair(pairs, currentSig, prevSig) ==
  IF ~Falsy(prevSig) THEN pairs \cup {PairKey(prevSig, currentSig)} ELSE pairs

\* mutant: only the signature set is emptied, as clearSignatures once did
clearSignatures_pairsKept(seen, pairs) == [seen |-> {}, pairs |-> pairs]

\* clearSignatures, the memory it leaves
clearSignatures(seen, pairs) == [seen |-> {}, pairs |-> {}]

(***************************************************************************)
(* The state.                                                              *)
(*                                                                         *)
(* The host page keeps a log of rows and mounts a contiguous window of it  *)
(* as sibling elements; a mutation observer delivers the rows the host     *)
(* inserted, in order, and processNode runs on each.                       *)
(***************************************************************************)
VARIABLES
  log,                      \* host: the rows of the game log, as line ids
  winLo, winHi,             \* host: rows winLo..winHi are mounted, in order
  queue,                    \* added nodes delivered and not yet processed (row numbers)
  pc,                       \* processNode's position: "idle", "parse", "apply"
  cur,                      \* the row processNode is working on and its event
  processedLineSignatures,  \* dedup.js: the seen-signature set
  processedAdjacentPairs,   \* dedup.js: the seen-adjacency set
  players,                  \* players.js: the players Map
  counts,                   \* dice.js: _counts
  clears,                   \* how many times clear() ran
  observing,                \* dom.js: the mutation observers are attached
  root,                     \* host: the container that held the log at boot, 0 for none
  applied,                  \* history: per row, how often its event was applied
  allowedCtx,               \* history: the <<sig, prevSig>> the filter allowed since clear()
  last,                     \* history: how the filter decided the last node
  entered,                  \* history: the elements handed to the pipeline, as
                            \* <<element, kid>> with kid 0 for the element itself
  call,                     \* history: the last call of players.js or dice.js made
                            \* from outside the pipeline, and what it returned
  boot,                     \* the boot block: the step it is at, the step that threw
  walk                      \* dom.js: a walkAllNodes run and the observers attached

vars == <<log, winLo, winHi, queue, pc, cur, processedLineSignatures,
          processedAdjacentPairs, players, counts, clears, observing, root,
          applied, allowedCtx, last, entered, call, boot, walk>>

hostVars == <<log, winLo, winHi>>
memoryVars == <<processedLineSignatures, processedAdjacentPairs>>
aggregateVars == <<players, counts>>

bootVars == <<observing, root>>

NoCur == [idx |-> 0, evt |-> NoEvent]

NoLast == [idx |-> 0, prev |-> None, sigSeen |-> FALSE, prevSeen |-> FALSE,
           pairSeen |-> FALSE, verdict |-> "none", failed |-> FALSE,
           threw |-> {}, evt |-> NoEvent, applied |-> FALSE, pushes |-> NoPushes]

(***************************************************************************)
(* dom.js: a page with embedded frames and a shadow tree.                  *)
(*                                                                         *)
(*   1 document                                                            *)
(*     2 html                                                              *)
(*       3 div                                                             *)
(*       4 iframe A -> 5 document( 6 div, 13 iframe C -> 14 document(15) ) *)
(*       7 host, shadow root 8 ( 9 iframe B -> 11 document(12), 10 div )   *)
(*                                                                         *)
(* realm: the document whose window created the node; instanceof tests     *)
(* against the script's own HTMLElement and HTMLIFrameElement hold for the *)
(* nodes of realm 1 only.                                                  *)
(***************************************************************************)
TreeNode(kind, children, shadowRoot, frameDoc, realm) ==
  [kind |-> kind, children |-> children, shadowRoot |-> shadowRoot,
   frameDoc |-> frameDoc, realm |-> realm]

Tree == <<TreeNode("document", <<2>>, 0, 0, 1),
          TreeNode("element", <<3, 4, 7>>, 0, 0, 1),
          TreeNode("element", <<>>, 0, 0, 1),
          TreeNode("iframe", <<>>, 0, 5, 1),
          TreeNode("document", <<6, 13>>, 0, 0, 5),
          TreeNode("element", <<>>, 0, 0, 5),
          TreeNode("element", <<16>>, 8, 0, 1),
          TreeNode("shadow", <<9, 10>>, 0, 0, 1),
          TreeNode("iframe", <<>>, 0, 11, 1),
          TreeNode("element", <<>>, 0, 0, 1),
          TreeNode("document", <<12>>, 0, 0, 11),
          TreeNode("element", <<>>, 0, 0, 11),
          TreeNode("iframe", <<>>, 0, 14, 5),
          TreeNode("document", <<15>>, 0, 0, 14),
          TreeNode("element", <<>>, 0, 0, 14),
          TreeNode("element", <<>>, 0, 0, 1)>>

TreeIds == 1..Len(Tree)

Frames == {n \in TreeIds : Tree[n].kind = "iframe"}

Reverse(q) == [i \in 1..Len(q) |-> q[Len(q) + 1 - i]]

\* node instanceof HTMLElement, in the script's realm
IsHTMLElement(n) == Tree[n].kind \in {"element", "iframe"} /\ Tree[n].realm = 1

\* node instanceof HTMLIFrameElement, in the script's realm
IsHTMLIFrameElement(n) == Tree[n].kind = "iframe" /\ Tree[n].realm = 1

\* node.contentDocument || node.contentWindow?.document: 0 stands for the
\* SecurityError of a cross-origin frame
FrameDocument(n, blocked) == IF n \in blocked THEN 0 ELSE Tree[n].frameDoc

\* mutant: the exception of a cross-origin frame ends the walk
WalkPushes_abort(n, blocked, stack, seenDocs) ==
  IF Tree[n].kind = "iframe" /\ FrameDocument(n, blocked) = 0
  THEN [stack |-> <<>>, seenDocs |-> seenDocs]
  ELSE LET s1 == IF Tree[n].shadowRoot # 0 THEN Append(stack, Tree[n].shadowRoot) ELSE stack
           doc == IF Tree[n].kind = "iframe" THEN FrameDocument(n, blocked) ELSE 0
           enter == doc # 0 /\ doc \notin seenDocs
           s2 == IF enter THEN Append(s1, doc) ELSE s1
       IN [stack |-> s2 \o Reverse(Tree[n].children),
           seenDocs |-> IF enter THEN seenDocs \cup {doc} ELSE seenDocs]

\* mutant: the children are pushed first to last
WalkPushes_forward(n, blocked, stack, seenDocs) ==
  LET s1 == IF Tree[n].shadowRoot # 0 THEN Append(stack, Tree[n].shadowRoot) ELSE stack
      doc == IF Tree[n].kind = "iframe" THEN FrameDocument(n, blocked) ELSE 0
      enter == doc # 0 /\ doc \notin seenDocs
      s2 == IF enter THEN Append(s1, doc) ELSE s1
  IN [stack |-> s2 \o Tree[n].children,
      seenDocs |-> IF enter THEN seenDocs \cup {doc} ELSE seenDocs]

\* one turn of the loop of walkAllNodes after the yield of node n: the shadow
\* root, the frame's document unless reading it throws or it was entered
\* before, the children in reverse
WalkPushes(n, blocked, stack, seenDocs) ==
  LET s1 == IF Tree[n].shadowRoot # 0 THEN Append(stack, Tree[n].shadowRoot) ELSE stack
      doc == IF Tree[n].kind = "iframe" THEN FrameDocument(n, blocked) ELSE 0
      enter == doc # 0 /\ doc \notin seenDocs
      s2 == IF enter THEN Append(s1, doc) ELSE s1
  IN [stack |-> s2 \o Reverse(Tree[n].children),
      seenDocs |-> IF enter THEN seenDocs \cup {doc} ELSE seenDocs]

\* the body of the loops of startObservers over a node: the roots it starts
\* to observe
Hooks(n, blocked) ==
  (IF IsHTMLElement(n) /\ Tree[n].shadowRoot # 0 THEN {Tree[n].shadowRoot} ELSE {})
  \cup (IF IsHTMLIFrameElement(n) /\ FrameDocument(n, blocked) # 0
        THEN {FrameDocument(n, blocked)} ELSE {})

\* no walk under way, nothing observed
NoWalk == [phase |-> "none", blocked |-> {}, stack |-> <<>>, seenDocs |-> {},
           yielded |-> <<>>, observed |-> {}]

\* the statements of the boot block's try, in order
BootSteps == <<"getOverlayBody", "renderOverlay", "renderDiceGraph", "ensureDebugControls",
               "initialScan", "startObservers">>

StepIndex(step) == CHOOSE i \in 1..Len(BootSteps) : BootSteps[i] = step

\* what follows a step that returned
StepAfter(step) == IF StepIndex(step) = Len(BootSteps) THEN "ready"
                   ELSE BootSteps[StepIndex(step) + 1]

\* the boot block has run through
Booted == [at |-> "ready", failed |-> None, propagated |-> FALSE]

\* mutant: the block goes on with the next statement after a throw
BootCatch_resume(step) == [at |-> StepAfter(step), failed |-> step, propagated |-> FALSE]

\* catch (e) { err('boot failed:', e) }: the rest of the block is skipped and
\* the exception ends there
BootCatch(step) == [at |-> "failed", failed |-> step, propagated |-> FALSE]

NoCall == [op |-> "none", name |-> None, out |-> None, nodes |-> <<>>, sigs |-> <<>>,
           arg |-> NoResources, sum |-> 0,
           spent |-> NoSpent, tally |-> [d \in {} |-> 0]]

Init ==
  /\ log = <<>>
  /\ winLo = 1
  /\ winHi = 0
  /\ queue = <<>>
  /\ pc = "idle"
  /\ cur = NoCur
  /\ processedLineSignatures = {}
  /\ processedAdjacentPairs = {}
  /\ players = NoPlayers
  /\ counts = ZeroCounts
  /\ clears = 0
  /\ observing = TRUE
  /\ root = 0
  /\ applied = <<>>
  /\ allowedCtx = {}
  /\ last = NoLast
  /\ entered = {}
  /\ call = NoCall
  /\ boot = Booted
  /\ walk = NoWalk

\* mutant: processNode takes any node for an element
Qualifies_anyNode(l) == IsCandidate[l]

\* the tests at the head of processNode: the node is an element, its text is
\* not empty and matches CANDIDATE_LINE_REGEX
Qualifies(l) == l \notin TextNodeIds /\ IsCandidate[l]

\* the nearest mounted row before row idx that qualifies as a candidate line,
\* 0 when there is none: the previousElementSibling loop of processNode
PrevCandidate(rows, lo, idx) ==
  LET cands == {k \in lo..(idx - 1) : rows[k] \notin TextNodeIds /\ IsCandidate[rows[k]]}
  IN IF cands = {} THEN 0 ELSE CHOOSE k \in cands : \A h \in cands : h <= k

PrevSigOf(rows, lo, idx) ==
  LET k == PrevCandidate(rows, lo, idx)
  IN IF k = 0 THEN None ELSE LineSig[rows[k]]

Idle == pc = "idle" /\ queue = <<>>

\* the catalogue element a node reference stands for: 0 is the container that
\* held the log at boot, i the i-th element of the log
NodeAt(idx) == IF idx = 0 THEN root ELSE log[idx]

RowRange(i, j) == [k \in 1..(j - i + 1) |-> i + k - 1]

(***************************************************************************)
(* The host appends a row below the mounted tail of the log; the rows back *)
(* to the nearest earlier candidate row are mounted.  twice: two observers *)
(* watch the container, and each delivers the node.                        *)
(***************************************************************************)
HostAppend(l, twice) ==
  /\ Idle
  /\ observing
  /\ Len(log) < (IF clears = 0 THEN MaxLog ELSE MaxClearLog)
  /\ winHi = Len(log)
  /\ winLo <= Max(1, PrevCandidate(log, 1, Len(log) + 1))
  /\ log' = Append(log, l)
  /\ winHi' = Len(log) + 1
  /\ queue' = IF twice THEN <<Len(log) + 1, Len(log) + 1>> ELSE <<Len(log) + 1>>
  /\ applied' = Append(applied, 0)
  /\ UNCHANGED <<winLo, pc, cur, processedLineSignatures, processedAdjacentPairs,
                 players, counts, clears, observing, root, allowedCtx, last, entered, call, boot, walk>>

(***************************************************************************)
(* The host re-creates rows i..j of the unchanged log as new nodes (list   *)
(* virtualization); the observer delivers them in document order.          *)
(***************************************************************************)
HostRemount(i, j) ==
  /\ Idle
  /\ observing
  /\ 1 <= i /\ i <= j /\ j <= Len(log)
  /\ winLo' = i
  /\ winHi' = j
  /\ queue' = RowRange(i, j)
  /\ UNCHANGED <<log, pc, cur, processedLineSignatures, processedAdjacentPairs,
                 players, counts, clears, observing, root, applied, allowedCtx, last,
                 entered, call, boot, walk>>

(***************************************************************************)
(* processNode up to markContext: the candidate test, the sibling walk,    *)
(* the duplicate filter, the marking.                                      *)
(***************************************************************************)
ProcessNodeFilter ==
  /\ pc = "idle"
  /\ queue # <<>>
  /\ LET idx == Head(queue)
         node == NodeAt(idx)
         prevSig == PrevSigOf(log, winLo, idx)
         sig == LineSig[node]
         seenBefore == [idx |-> idx, prev |-> prevSig,
                        sigSeen |-> sig \in processedLineSignatures,
                        prevSeen |-> prevSig \in processedLineSignatures,
                        pairSeen |-> ~Falsy(prevSig)
                                     /\ PairKey(prevSig, sig) \in processedAdjacentPairs,
                        verdict |-> "none", failed |-> FALSE,
                        threw |-> {}, evt |-> NoEvent, applied |-> FALSE,
                        pushes |-> NoPushes]
     IN /\ queue' = Tail(queue)
        /\ entered' = entered \cup {<<idx, 0>>}
        /\ IF ~Qualifies(node)
           THEN /\ last' = [NoLast EXCEPT !.idx = idx, !.verdict = "skip"]
                /\ UNCHANGED <<pc, cur, processedLineSignatures, processedAdjacentPairs,
                               allowedCtx>>
           ELSE IF isContextualDuplicate(processedLineSignatures, processedAdjacentPairs,
                                         sig, prevSig)
           THEN /\ last' = [seenBefore EXCEPT !.verdict = "suppress"]
                /\ UNCHANGED <<pc, cur, processedLineSignatures, processedAdjacentPairs,
                               allowedCtx>>
           ELSE /\ processedLineSignatures' = MarkSignature(processedLineSignatures, sig)
                /\ processedAdjacentPairs' = MarkPair(processedAdjacentPairs, sig, prevSig)
                /\ pc' = "parse"
                /\ cur' = [idx |-> idx, evt |-> NoEvent]
                /\ allowedCtx' = allowedCtx \cup {<<sig, prevSig>>}
                /\ last' = [seenBefore EXCEPT !.verdict = "allow"]
  /\ UNCHANGED <<log, winLo, winHi, players, counts, clears, observing, root, applied, call, boot, walk>>

\* mutant: a line no recognizer claims is forgotten, to be tried again
ProcessNodeParse_retry(throws) ==
  /\ pc = "parse"
  /\ LET evt == LineEventCatching[<<NodeAt(cur.idx), throws>>]
     IN IF evt = NoEvent
        THEN /\ pc' = "idle" /\ cur' = NoCur
             /\ processedLineSignatures' =
                  processedLineSignatures \ {LineSig[NodeAt(cur.idx)]}
        ELSE /\ pc' = "apply" /\ cur' = [cur EXCEPT !.evt = evt]
             /\ UNCHANGED processedLineSignatures
  /\ last' = [last EXCEPT !.threw = throws]
  /\ UNCHANGED <<log, winLo, winHi, queue, processedAdjacentPairs,
                 players, counts, clears, observing, root, applied, allowedCtx,
                 entered, call, boot, walk>>

(***************************************************************************)
(* processNode: parseLine; a line no recognizer claims ends here.  throws:  *)
(* the recognizers that raise an exception on this line.                   *)
(***************************************************************************)
ProcessNodeParse(throws) ==
  /\ pc = "parse"
  /\ LET evt == LineEventCatching[<<NodeAt(cur.idx), throws>>]
     IN IF evt = NoEvent
        THEN pc' = "idle" /\ cur' = NoCur
        ELSE pc' = "apply" /\ cur' = [cur EXCEPT !.evt = evt]
  /\ last' = [last EXCEPT !.threw = throws]
  /\ UNCHANGED <<log, winLo, winHi, queue, processedLineSignatures, processedAdjacentPairs,
                 players, counts, clears, observing, root, applied, allowedCtx,
                 entered, call, boot, walk>>

(***************************************************************************)
(* processNode: applyEvent inside try/catch.  The event's mutation comes   *)
(* first; the render pushes that follow it may throw, which processNode    *)
(* catches and logs.                                                       *)
(***************************************************************************)
ProcessNodeApply(renderThrows) ==
  /\ pc = "apply"
  /\ LET r == applyEvent(players, counts, cur.evt, renderThrows)
     IN /\ players' = r.players
        /\ counts' = r.counts
        /\ last' = [last EXCEPT !.failed = (renderThrows # "ok"), !.evt = cur.evt,
                                !.applied = TRUE, !.pushes = r.pushes]
  /\ applied' = IF cur.idx = 0 THEN applied ELSE [applied EXCEPT ![cur.idx] = @ + 1]
  /\ pc' = "idle"
  /\ cur' = NoCur
  /\ UNCHANGED <<log, winLo, winHi, queue, processedLineSignatures, processedAdjacentPairs,
                 clears, observing, root, allowedCtx, entered, call, boot, walk>>

(***************************************************************************)
(* window.__miniExplorer.clear()                                           *)
(***************************************************************************)
Clear ==
  /\ Idle
  /\ clears < MaxClears
  /\ Len(log) <= MaxClearLog
  /\ players' = clearPlayers
  /\ counts' = clearDice
  /\ processedLineSignatures' =
       clearSignatures(processedLineSignatures, processedAdjacentPairs).seen
  /\ processedAdjacentPairs' =
       clearSignatures(processedLineSignatures, processedAdjacentPairs).pairs
  /\ clears' = clears + 1
  /\ allowedCtx' = {}
  /\ last' = [NoLast EXCEPT !.verdict = "clear",
                             !.pushes = RenderPushes(clearPlayers, clearDice, "ok")]
  /\ UNCHANGED <<log, winLo, winHi, queue, pc, cur, observing, root, applied, entered, call, boot, walk>>

\* a session on a page that was empty at boot, in which no recognizer throws
Next ==
  \/ \E l \in LineIds, twice \in BOOLEAN : HostAppend(l, twice)
  \/ \E i \in 1..MaxLog, j \in 1..MaxLog : HostRemount(i, j)
  \/ ProcessNodeFilter
  \/ ProcessNodeParse({})
  \/ \E renderThrows \in RenderOutcomes : ProcessNodeApply(renderThrows)
  \/ Clear

Spec == Init /\ [][Next]_vars

(***************************************************************************)
(* Boot on a page that already shows a log, then the live phase.           *)
(*                                                                         *)
(* boot: initialScan walks the document in document order (the container   *)
(* that holds the log, then its rows) and runs the pipeline on every       *)
(* element; startObservers comes after it.  All of boot is one synchronous *)
(* run, so the host inserts nothing before it has ended.                   *)
(***************************************************************************)
\* walkAllNodes(document) as initialScan consumes it: the container, then its
\* rows
ScanQueue(r) == IF r = 0 THEN <<>> ELSE <<0>> \o RowRange(1, Len(KidsOf(r)))

\* the boot block is at step: nothing has thrown
BootAt(step) == [at |-> step, failed |-> None, propagated |-> FALSE]

PageInit ==
  /\ root \in {0} \cup BlockIds
  /\ log = KidsOf(root)
  /\ winLo = 1
  /\ winHi = Len(log)
  /\ queue = ScanQueue(root)
  /\ pc = "idle"
  /\ cur = NoCur
  /\ processedLineSignatures = {}
  /\ processedAdjacentPairs = {}
  /\ players = NoPlayers
  /\ counts = ZeroCounts
  /\ clears = 0
  /\ observing = FALSE
  /\ applied = [k \in 1..Len(log) |-> 0]
  /\ allowedCtx = {}
  /\ last = NoLast
  /\ entered = {}
  /\ call = NoCall
  /\ boot = BootAt("initialScan")
  /\ walk = NoWalk

\* mutant: the observers are attached while the enumeration is under way
ScanFinished_early == TRUE

\* initialScan has returned
ScanFinished == pc = "idle" /\ queue = <<>>

\* boot: initialScan() returns, the next statement is startObservers
ScanReturns ==
  /\ boot.at = "initialScan"
  /\ ScanFinished
  /\ boot' = [boot EXCEPT !.at = StepAfter("initialScan")]
  /\ UNCHANGED <<log, winLo, winHi, queue, pc, cur, processedLineSignatures,
                 processedAdjacentPairs, players, counts, clears, observing, root,
                 applied, allowedCtx, last, entered, call, walk>>

\* boot, after initialScan: startObservers(processNode)
StartObservers ==
  /\ boot.at = "startObservers"
  /\ observing' = TRUE
  /\ boot' = [boot EXCEPT !.at = StepAfter("startObservers")]
  /\ UNCHANGED <<log, winLo, winHi, queue, pc, cur, processedLineSignatures,
                 processedAdjacentPairs, players, counts, clears, root, applied,
                 allowedCtx, last, entered, call, walk>>

\* The host inserts an element (a row, or a container built with its rows
\* inside) below the tail of the log.  The mutation record names the inserted
\* element alone, and the observer callback hands processNode that element.
HostInsert(l) ==
  /\ observing
  /\ pc = "idle"
  /\ queue = <<>>
  /\ Len(log) < Len(KidsOf(root)) + MaxInserts
  /\ log' = Append(log, l)
  /\ winHi' = Len(log) + 1
  /\ queue' = <<Len(log) + 1>>
  /\ applied' = Append(applied, 0)
  /\ UNCHANGED <<winLo, pc, cur, processedLineSignatures, processedAdjacentPairs,
                 players, counts, clears, observing, root, allowedCtx, last, entered, call, boot, walk>>

PageNext ==
  \/ ScanReturns
  \/ StartObservers
  \/ \E l \in PageLineIds \cup BlockIds : HostInsert(l)
  \/ ProcessNodeFilter
  \/ \E throws \in ThrowSets : ProcessNodeParse(throws)
  \/ \E renderThrows \in RenderOutcomes : ProcessNodeApply(renderThrows)

PageSpec == PageInit /\ [][PageNext]_vars

(***************************************************************************)
(* The boot block from its first statement, any statement of which may     *)
(* throw.                                                                  *)
(***************************************************************************)
BootInit ==
  /\ root \in {0} \cup BlockIds
  /\ log = KidsOf(root)
  /\ winLo = 1
  /\ winHi = Len(log)
  /\ queue = <<>>
  /\ pc = "idle"
  /\ cur = NoCur
  /\ processedLineSignatures = {}
  /\ processedAdjacentPairs = {}
  /\ players = NoPlayers
  /\ counts = ZeroCounts
  /\ clears = 0
  /\ observing = FALSE
  /\ applied = [k \in 1..Len(log) |-> 0]
  /\ allowedCtx = {}
  /\ last = NoLast
  /\ entered = {}
  /\ call = NoCall
  /\ boot = BootAt(BootSteps[1])
  /\ walk = NoWalk

\* getOverlayBody, renderOverlay, renderDiceGraph, ensureDebugControls
SetupSteps == {BootSteps[i] : i \in 1..4}

\* a setup statement returns; after the last one initialScan starts its walk
BootStep ==
  /\ boot.at \in SetupSteps
  /\ boot' = [boot EXCEPT !.at = StepAfter(boot.at)]
  /\ queue' = IF StepAfter(boot.at) = "initialScan" THEN ScanQueue(root) ELSE queue
  /\ UNCHANGED <<log, winLo, winHi, pc, cur, processedLineSignatures,
                 processedAdjacentPairs, players, counts, clears, observing, root,
                 applied, allowedCtx, last, entered, call, walk>>

\* a setup statement throws
BootStepThrows ==
  /\ boot.at \in SetupSteps
  /\ boot' = BootCatch(boot.at)
  /\ UNCHANGED <<log, winLo, winHi, queue, pc, cur, processedLineSignatures,
                 processedAdjacentPairs, players, counts, clears, observing, root,
                 applied, allowedCtx, last, entered, call, walk>>

\* initialScan throws: processNode raises outside its try/catch around
\* applyEvent, on entering a node or after markContext; the rest of the walk
\* is abandoned
ScanThrows ==
  /\ boot.at = "initialScan"
  /\ \/ pc = "idle" /\ queue # <<>>
     \/ pc = "parse"
  /\ pc' = "idle"
  /\ cur' = NoCur
  /\ queue' = <<>>
  /\ boot' = BootCatch("initialScan")
  /\ UNCHANGED <<log, winLo, winHi, processedLineSignatures, processedAdjacentPairs,
                 players, counts, clears, observing, root, applied, allowedCtx, last,
                 entered, call, walk>>

\* startObservers throws after observe(document), whose own try/catch keeps
\* its failures inside: the document is being observed
StartObserversThrows ==
  /\ boot.at = "startObservers"
  /\ observing' = TRUE
  /\ boot' = BootCatch("startObservers")
  /\ UNCHANGED <<log, winLo, winHi, queue, pc, cur, processedLineSignatures,
                 processedAdjacentPairs, players, counts, clears, root, applied,
                 allowedCtx, last, entered, call, walk>>

BootNext ==
  \/ BootStep
  \/ BootStepThrows
  \/ ScanThrows
  \/ ScanReturns
  \/ StartObservers
  \/ StartObserversThrows
  \/ \E l \in PageLineIds \cup BlockIds : HostInsert(l)
  \/ ProcessNodeFilter
  \/ \E throws \in ThrowSets : ProcessNodeParse(throws)
  \/ \E renderThrows \in RenderOutcomes : ProcessNodeApply(renderThrows)

BootSpec == BootInit /\ [][BootNext]_vars

(***************************************************************************)
(* The live phase on a page that was empty at boot: the host inserts       *)
(* elements and text nodes, among them nodes that do not qualify.          *)
(***************************************************************************)
LiveNext ==
  \/ \E l \in LiveLineIds : HostInsert(l)
  \/ ProcessNodeFilter
  \/ \E throws \in ThrowSets : ProcessNodeParse(throws)
  \/ \E renderThrows \in RenderOutcomes : ProcessNodeApply(renderThrows)

LiveSpec == Init /\ [][LiveNext]_vars

(***************************************************************************)
(* dom.js on the page with frames: walkAllNodes(document), then            *)
(* startObservers, with any set of the frames cross-origin.                *)
(***************************************************************************)
WalkInit ==
  /\ log = <<>>
  /\ winLo = 1
  /\ winHi = 0
  /\ queue = <<>>
  /\ pc = "idle"
  /\ cur = NoCur
  /\ processedLineSignatures = {}
  /\ processedAdjacentPairs = {}
  /\ players = NoPlayers
  /\ counts = ZeroCounts
  /\ clears = 0
  /\ observing = FALSE
  /\ root = 0
  /\ applied = <<>>
  /\ allowedCtx = {}
  /\ last = NoLast
  /\ entered = {}
  /\ call = NoCall
  /\ boot = BootAt("initialScan")
  /\ \E blocked \in SUBSET Frames :
       walk = [NoWalk EXCEPT !.phase = "walk", !.blocked = blocked, !.stack = <<1>>]

\* one turn of the loop of walkAllNodes; in startObservers the loop body
\* hooks the yielded node before the generator goes on
WalkStep ==
  /\ walk.phase \in {"walk", "observe"}
  /\ walk.stack # <<>>
  /\ LET n == walk.stack[Len(walk.stack)]
         r == WalkPushes(n, walk.blocked, SubSeq(walk.stack, 1, Len(walk.stack) - 1),
                         walk.seenDocs)
     IN walk' = [walk EXCEPT !.stack = r.stack, !.seenDocs = r.seenDocs,
                             !.yielded = Append(@, n),
                             !.observed = IF walk.phase = "observe"
                                          THEN @ \cup Hooks(n, walk.blocked) ELSE @]
  /\ UNCHANGED <<log, winLo, winHi, queue, pc, cur, processedLineSignatures,
                 processedAdjacentPairs, players, counts, clears, observing, root,
                 applied, allowedCtx, last, entered, call, boot>>

\* the walk of initialScan is over; startObservers observes the document and
\* starts its own walk
WalkObserve ==
  /\ walk.phase = "walk"
  /\ walk.stack = <<>>
  /\ walk' = [walk EXCEPT !.phase = "observe", !.stack = <<1>>, !.seenDocs = {},
                          !.yielded = <<>>, !.observed = {1}]
  /\ observing' = TRUE
  /\ boot' = BootAt("startObservers")
  /\ UNCHANGED <<log, winLo, winHi, queue, pc, cur, processedLineSignatures,
                 processedAdjacentPairs, players, counts, clears, root,
                 applied, allowedCtx, last, entered, call>>

\* startObservers returns
WalkReturn ==
  /\ walk.phase = "observe"
  /\ walk.stack = <<>>
  /\ walk' = [walk EXCEPT !.phase = "done"]
  /\ boot' = Booted
  /\ UNCHANGED <<log, winLo, winHi, queue, pc, cur, processedLineSignatures,
                 processedAdjacentPairs, players, counts, clears, observing, root,
                 applied, allowedCtx, last, entered, call>>

WalkNext == WalkStep \/ WalkObserve \/ WalkReturn

WalkSpec == WalkInit /\ [][WalkNext]_vars

(***************************************************************************)
(* players.js and dice.js called directly, as any importer may call them.  *)
(***************************************************************************)
ApiNames == {"Dave", "Eve"}

\* the resource objects passed to addResources and spendResources: the cost
\* table of applyEvent and some others
ApiArgs == {Cost(1, 1, 0, 0, 0), Cost(1, 1, 1, 1, 0), Cost(0, 0, 0, 2, 3),
            Cost(0, 0, 0, 0, 0), Cost(1, 0, 0, 0, 0), Cost(0, 0, 0, 1, 0)}

\* the sums passed to recordDice
ApiSums == {1, 2, 7, 12, 13}

ArgTotal(resources) == SumSeq([k \in 1..Len(RESOURCE_KEYS) |-> resources[RESOURCE_KEYS[k]]])

HeldBy(pl, name) == IF name \in DOMAIN pl THEN pl[name].total ELSE 0

TallySum(tally) == IF DOMAIN tally = {} THEN 0
                   ELSE SumSeq([k \in 1..13 |-> IF k \in DOMAIN tally THEN tally[k] ELSE 0])

ApiAddResources(name, resources) ==
  /\ HeldBy(players, name) + ArgTotal(resources) <= MaxHold
  /\ players' = addResources(players, name, resources)
  /\ call' = [call EXCEPT !.op = "addResources", !.name = name, !.arg = resources,
                          !.sum = 0, !.spent = NoSpent]
  /\ UNCHANGED <<log, winLo, winHi, queue, pc, cur, processedLineSignatures,
                 processedAdjacentPairs, counts, clears, observing, root, applied,
                 allowedCtx, last, entered, boot, walk>>

ApiSpendResources(name, costs) ==
  /\ players' = spendResources(players, name, costs)
  /\ call' = [call EXCEPT !.op = "spendResources", !.name = name, !.arg = costs,
                          !.sum = 0, !.spent = SpentBy(players, name, costs)]
  /\ UNCHANGED <<log, winLo, winHi, queue, pc, cur, processedLineSignatures,
                 processedAdjacentPairs, counts, clears, observing, root, applied,
                 allowedCtx, last, entered, boot, walk>>

ApiRecordDice(sum) ==
  /\ TallySum(call.tally) < MaxRolls
  /\ counts' = recordDice(counts, sum)
  /\ call' = [call EXCEPT !.op = "recordDice", !.name = None, !.arg = NoResources,
                          !.sum = sum, !.spent = NoSpent,
                          !.tally = BumpCount(call.tally, sum)]
  /\ UNCHANGED <<log, winLo, winHi, queue, pc, cur, processedLineSignatures,
                 processedAdjacentPairs, players, clears, observing, root, applied,
                 allowedCtx, last, entered, boot, walk>>

ApiClearPlayers ==
  /\ call.op # "clearPlayers"
  /\ players' = clearPlayers
  /\ call' = [NoCall EXCEPT !.op = "clearPlayers"]
  /\ UNCHANGED <<log, winLo, winHi, queue, pc, cur, processedLineSignatures,
                 processedAdjacentPairs, counts, clears, observing, root, applied,
                 allowedCtx, last, entered, boot, walk>>

ApiClearDice ==
  /\ call.op # "clearDice"
  /\ counts' = clearDice
  /\ call' = [NoCall EXCEPT !.op = "clearDice"]
  /\ UNCHANGED <<log, winLo, winHi, queue, pc, cur, processedLineSignatures,
                 processedAdjacentPairs, players, clears, observing, root, applied,
                 allowedCtx, last, entered, boot, walk>>

\* the calls of players.js
PlayersNext ==
  \/ \E name \in ApiNames, resources \in ApiArgs : ApiAddResources(name, resources)
  \/ \E name \in ApiNames, costs \in ApiArgs : ApiSpendResources(name, costs)
  \/ ApiClearPlayers

PlayersSpec == Init /\ [][PlayersNext]_vars

\* the calls of dice.js
DiceNext ==
  \/ \E sum \in ApiSums : ApiRecordDice(sum)
  \/ ApiClearDice

DiceSpec == Init /\ [][DiceNext]_vars

(***************************************************************************)
(* dedup.js: canonicalizeBasename called on file names.                    *)
(***************************************************************************)
Stems == {"road_blue", "plainname", "card_brick"}

\* segments between stem and extension: hash runs, a short hex run, and
\* segments that are no hash
MiddleSegments == {"33012eed15cae5", "abcdef", "ABCDEF12", "12345", "v2", "min"}

Extensions == {"svg", "png"}

\* the lower-cased basenames of image sources: stem, up to MaxSegments
\* segments, extension; and names without an extension or without a stem
Basenames ==
  {JoinWith(<<stem>> \o mids \o <<ext>>, ".") :
     stem \in Stems,
     mids \in UNION {[1..n -> MiddleSegments] : n \in 0..MaxSegments},
     ext \in Extensions}
  \cup {"plainname", ".hidden"}

\* one call per behaviour: the function keeps no state between calls
ApiCanonicalize(basename) ==
  /\ call = NoCall
  /\ basename \in Basenames
  /\ call' = [NoCall EXCEPT !.op = "canonicalizeBasename", !.name = basename,
                            !.out = canonicalizeBasename(basename)]
  /\ UNCHANGED <<log, winLo, winHi, queue, pc, cur, processedLineSignatures,
                 processedAdjacentPairs, players, counts, clears, observing, root,
                 applied, allowedCtx, last, entered, boot, walk>>

CanonNext == call = NoCall /\ \E basename \in Basenames : ApiCanonicalize(basename)

CanonSpec == Init /\ [][CanonNext]_vars

(***************************************************************************)
(* dedup.js: lineSignature called on two lines, with some signature memory *)
(* in place.                                                               *)
(***************************************************************************)
SigTexts == {"Carol got", "Carol gave"}

\* image sources: the lumber card and the brick card, each with and without a
\* cache-busting hash segment
SigIcons == {"/img/card_lumber.4f5a8b9c.svg", "/img/card_lumber.svg",
             "card_brick.0a1b2c3d4e.svg?v=2", "card_brick.svg"}

SigNodes == {[text |-> t, imgs |-> q] :
               t \in SigTexts,
               q \in UNION {[1..n -> SigIcons] : n \in 0..MaxIcons}}

SigMemories == {{}, {"Carol got | imgs:card_brick.svg"}}

\* lineSignature(n.text, n) of every line of SigNodes (@@ makes the table
\* explicit)
NodeSig == [n \in SigNodes |-> lineSignature(n.text, n)] @@ <<>>

SigInit ==
  /\ log = <<>>
  /\ winLo = 1
  /\ winHi = 0
  /\ queue = <<>>
  /\ pc = "idle"
  /\ cur = NoCur
  /\ processedLineSignatures \in SigMemories
  /\ processedAdjacentPairs = {}
  /\ players = NoPlayers
  /\ counts = ZeroCounts
  /\ clears = 0
  /\ observing = TRUE
  /\ root = 0
  /\ applied = <<>>
  /\ allowedCtx = {}
  /\ last = NoLast
  /\ entered = {}
  /\ call = NoCall
  /\ boot = Booted
  /\ walk = NoWalk

\* lineSignature(a.text, a) and lineSignature(b.text, b)
ApiLineSignature(a, b) ==
  /\ call = NoCall
  /\ call' = [NoCall EXCEPT !.op = "lineSignature", !.nodes = <<a, b>>,
                            !.sigs = <<NodeSig[a], NodeSig[b]>>]
  /\ UNCHANGED <<log, winLo, winHi, queue, pc, cur, processedLineSignatures,
                 processedAdjacentPairs, players, counts, clears, observing, root,
                 applied, allowedCtx, last, entered, boot, walk>>

SigNext == call = NoCall /\ \E a \in SigNodes, b \in SigNodes : ApiLineSignature(a, b)

SigSpec == SigInit /\ [][SigNext]_vars

(***************************************************************************)
(* applyEvent called on its own.                                           *)
(***************************************************************************)
\* the events handed to applyEvent directly: what the recognizers emit, a got
\* and a starting_resources event without any resource, and events of types
\* the switch does not know
ApiEvents ==
  {[NoEvent EXCEPT !.type = "got", !.player = "Dave", !.resources = Cost(1, 1, 0, 0, 0)],
   [NoEvent EXCEPT !.type = "got", !.player = "Eve"],
   [NoEvent EXCEPT !.type = "starting_resources", !.player = "Eve"],
   [NoEvent EXCEPT !.type = "dice_roll", !.diceSum = 7],
   [NoEvent EXCEPT !.type = "build", !.player = "Dave", !.items = <<"road">>],
   [NoEvent EXCEPT !.type = "trade", !.player = "Dave", !.resources = Cost(0, 0, 1, 0, 0)],
   [NoEvent EXCEPT !.type = "robber", !.player = "Eve", !.diceSum = 7, !.items = <<"city">>]}

\* applyEvent(evt) called on its own, the presentation layer accepting the
\* pushes
ApiApplyEvent(evt) ==
  /\ LET r == applyEvent(players, counts, evt, "ok")
     IN /\ HeldBy(r.players, "Dave") <= MaxHold
        /\ r.counts[7] <= MaxRolls
        /\ players' = r.players
        /\ counts' = r.counts
        /\ last' = [NoLast EXCEPT !.evt = evt, !.applied = TRUE, !.pushes = r.pushes]
  /\ call' = [NoCall EXCEPT !.op = "applyEvent"]
  /\ UNCHANGED <<log, winLo, winHi, queue, pc, cur, processedLineSignatures,
                 processedAdjacentPairs, clears, observing, root, applied,
                 allowedCtx, entered, boot, walk>>

ApplyNext == \E evt \in ApiEvents : ApiApplyEvent(evt)

\* SigInit: some signature memory is in place
ApplySpec == SigInit /\ [][ApplyNext]_vars

(***************************************************************************)
(* The observer callback on a batch of mutation records: every added node  *)
(* of every record, in order, goes to processNode.                         *)
(***************************************************************************)
BatchLineIds == {1, 2, 3, 4}

\* the added nodes of the batches the host may cause
Batches == UNION {[1..n -> BatchLineIds] : n \in 1..MaxBatch}

\* mutant: the added nodes are handed over last first
BatchQueue_reversed(first, n) == [k \in 1..n |-> first + n - k]

\* for (const m of mutations) m.addedNodes.forEach(n => processNode(n)): the
\* calls the callback makes, for n nodes appended from position first on
BatchQueue(first, n) == [k \in 1..n |-> first + k - 1]

\* processNode(rows[idx]) run to its end on the tree that holds rows 1..idx,
\* as a function of memory and aggregates
FeedOne(st, rows, idx) ==
  LET node == rows[idx]
      sig == LineSig[node]
      prevSig == PrevSigOf(SubSeq(rows, 1, idx), 1, idx)
      evt == LineEvent[node]
  IN IF ~Qualifies(node) THEN st
     ELSE IF isContextualDuplicate(st.seen, st.pairs, sig, prevSig) THEN st
     ELSE [seen |-> MarkSignature(st.seen, sig),
           pairs |-> MarkPair(st.pairs, sig, prevSig),
           players |-> IF evt = NoEvent THEN st.players ELSE ApplyPlayers(st.players, evt),
           counts |-> IF evt = NoEvent THEN st.counts ELSE ApplyDice(st.counts, evt)]

RECURSIVE FeedFrom(_, _, _)
\* the nodes rows[idx], rows[idx + 1], .. fed one by one, each inserted and
\* processed before the next
FeedFrom(st, rows, idx) ==
  IF idx > Len(rows) THEN st ELSE FeedFrom(FeedOne(st, rows, idx), rows, idx + 1)

\* The host appends the nodes of batch to the log in one task; the callback
\* then runs on the batch.  call.out: what feeding the nodes one by one gives.
HostBatch(batch) ==
  /\ Idle
  /\ observing
  /\ Len(log) + Len(batch) <= MaxLog
  /\ log' = log \o batch
  /\ winHi' = Len(log) + Len(batch)
  /\ queue' = BatchQueue(Len(log) + 1, Len(batch))
  /\ applied' = applied \o [k \in 1..Len(batch) |-> 0]
  /\ call' = [NoCall EXCEPT !.op = "batch", !.nodes = batch,
                            !.out = FeedFrom([seen |-> processedLineSignatures,
                                              pairs |-> processedAdjacentPairs,
                                              players |-> players, counts |-> counts],
                                             log \o batch, Len(log) + 1)]
  /\ UNCHANGED <<winLo, pc, cur, processedLineSignatures, processedAdjacentPairs,
                 players, counts, clears, observing, root, allowedCtx, last, entered,
                 boot, walk>>

BatchNext ==
  \/ \E batch \in Batches : HostBatch(batch)
  \/ ProcessNodeFilter
  \/ ProcessNodeParse({})
  \/ \E renderThrows \in RenderOutcomes : ProcessNodeApply(renderThrows)

BatchSpec == Init /\ [][BatchNext]_vars

(***************************************************************************)
(* The superseded duplicate filter (one global Set of signatures) run next *)
(* to the contextual one on the same candidates.                           *)
(***************************************************************************)
\* mutant: the global filter lets everything through
isSignatureDuplicate_never(seen, sig) == FALSE

\* dedup.js (superseded): processedLineSignatures.has(sig)
isSignatureDuplicate(seen, sig) == sig \in seen

\* dedup.js (superseded): processedLineSignatures.add(sig)
markSignature(seen, sig) == seen \cup {sig}

\* the candidates fed: two rows of one signature among them
RefineNodeIds == {1, 2, 10, 11}

\* what the superseded filter holds and what both filters said last
NoVerdicts == [seen |-> {}, global |-> "none", contextual |-> "none"]

RefineInit ==
  /\ log = <<>>
  /\ winLo = 1
  /\ winHi = 0
  /\ queue = <<>>
  /\ pc = "idle"
  /\ cur = NoCur
  /\ processedLineSignatures = {}
  /\ processedAdjacentPairs = {}
  /\ players = NoPlayers
  /\ counts = ZeroCounts
  /\ clears = 0
  /\ observing = TRUE
  /\ root = 0
  /\ applied = <<>>
  /\ allowedCtx = {}
  /\ last = NoLast
  /\ entered = {}
  /\ call = [NoCall EXCEPT !.out = NoVerdicts]
  /\ boot = Booted
  /\ walk = NoWalk

\* Both versions of processNode, up to the marking, on the candidate node
\* whose nearest preceding candidate is prev (0: none).  call.out.seen is the
\* Set of the superseded module.
FeedBoth(node, prev) ==
  LET sig == LineSig[node]
      prevSig == IF prev = 0 THEN None ELSE LineSig[prev]
      dupGlobal == isSignatureDuplicate(call.out.seen, sig)
      dupContextual == isContextualDuplicate(processedLineSignatures, processedAdjacentPairs,
                                             sig, prevSig)
  IN /\ Qualifies(node)
     /\ call' = [call EXCEPT !.op = "feed", !.nodes = <<node, prev>>,
                             !.out = [seen |-> IF dupGlobal THEN call.out.seen
                                               ELSE markSignature(call.out.seen, sig),
                                      global |-> IF dupGlobal THEN "suppress" ELSE "allow",
                                      contextual |-> IF dupContextual THEN "suppress"
                                                     ELSE "allow"]]
     /\ processedLineSignatures' = IF dupContextual THEN processedLineSignatures
                                   ELSE MarkSignature(processedLineSignatures, sig)
     /\ processedAdjacentPairs' = IF dupContextual THEN processedAdjacentPairs
                                  ELSE MarkPair(processedAdjacentPairs, sig, prevSig)
     /\ UNCHANGED <<log, winLo, winHi, queue, pc, cur, players, counts, clears, observing,
                    root, applied, allowedCtx, last, entered, boot, walk>>

RefineNext == \E node \in RefineNodeIds, prev \in RefineNodeIds \cup {0} : FeedBoth(node, prev)

RefineSpec == RefineInit /\ [][RefineNext]_vars

(***************************************************************************)
(* Properties.                                                             *)
(***************************************************************************)
CandidateSigs == {LineSig[l] : l \in {k \in LineIds : IsCandidate[k]}}

\* the filter has decided a candidate since the last clear()
Decided == last.verdict \in {"allow", "suppress"}

\* row i has been delivered and processNode has returned from every delivery
Done(i) ==
  /\ i \in 1..Len(log)
  /\ cur.idx # i
  /\ \A k \in 1..Len(queue) : queue[k] # i

\* the signature of the candidate row that precedes row i in the log
RowPrevSig(i) == PrevSigOf(log, 1, i)

\* processNode is about to run on the node at the head of the queue
AboutToFilter == pc = "idle" /\ queue # <<>>

HeadSig == LineSig[log[Head(queue)]]
HeadPrevSig == PrevSigOf(log, winLo, Head(queue))

C2_FirstSightAllowed ==
  /\ \A sig \in CandidateSigs \ processedLineSignatures :
       \A prevSig \in {None} \cup CandidateSigs :
         ~isContextualDuplicate(processedLineSignatures, processedAdjacentPairs, sig, prevSig)
  /\ (Decided /\ ~last.sigSeen) => last.verdict = "allow"

\* a new line was allowed next to a preceding candidate that was already known
C2_Witness ==
  /\ last.verdict = "allow"
  /\ ~last.sigSeen
  /\ last.prev # None
  /\ last.prevSeen
  /\ LineSig[log[last.idx]] \in processedLineSignatures

\* C3: a candidate whose signature was seen, that has a preceding candidate,
\* and whose adjacency key prevSig>>sig was never seen is allowed; a line that
\* occurs twice in the log, each time after a different preceding candidate
\* line, has its event applied both times.
C3_NewAdjacencyAllowed ==
  /\ (Decided /\ last.sigSeen /\ last.prev # None /\ ~last.pairSeen) => last.verdict = "allow"
  /\ clears = 0 =>
       \A i \in 1..Len(log) : \A j \in (i + 1)..Len(log) :
         ( /\ Done(i) /\ Done(j)
           /\ log[i] = log[j]
           /\ LineEvent[log[i]] # NoEvent
           /\ \A k \in 1..(j - 1) : k # i => LineSig[log[k]] # LineSig[log[i]]
           /\ RowPrevSig(i) # None /\ RowPrevSig(j) # None
           /\ RowPrevSig(i) # RowPrevSig(j) )
         => (applied[i] = 1 /\ applied[j] = 1)

\* the same line came twice after different neighbours and was applied twice
C3_Witness ==
  /\ clears = 0
  /\ Idle
  /\ Len(log) = 3
  /\ log[2] = log[3]
  /\ log[1] # log[2]
  /\ IsCandidate[log[1]]
  /\ LineEvent[log[2]] # NoEvent
  /\ last.idx = 3
  /\ last.verdict = "allow"
  /\ last.sigSeen /\ ~last.pairSeen
  /\ applied[2] = 1 /\ applied[3] = 1

\* C4: a candidate whose signature was seen and whose adjacency key
\* prevSig>>sig was seen is suppressed, and the suppression leaves the
\* signature memory, the player records and the dice histogram as they were;
\* so a block fed again with the pairing of its first feed changes nothing.
C4_SeenAdjacencySuppressed ==
  /\ []((Decided /\ last.sigSeen /\ last.pairSeen) => last.verdict = "suppress")
  /\ [][( /\ AboutToFilter
          /\ IsCandidate[log[Head(queue)]]
          /\ HeadSig \in processedLineSignatures
          /\ HeadPrevSig # None
          /\ PairKey(HeadPrevSig, HeadSig) \in processedAdjacentPairs )
        => ( /\ last'.verdict = "suppress"
             /\ pc' = "idle"
             /\ UNCHANGED <<processedLineSignatures, processedAdjacentPairs,
                            players, counts, applied>> )]_vars

\* the block [A, B] below a chat row was fed a second time: A again without a
\* preceding candidate, B again after A, and both events stay applied once
C4_Witness ==
  /\ clears = 0
  /\ Idle
  /\ Len(log) = 3
  /\ ~IsCandidate[log[1]]
  /\ log[2] # log[3]
  /\ LineEvent[log[2]] # NoEvent /\ LineEvent[log[3]] # NoEvent
  /\ winLo = 2 /\ winHi = 3
  /\ last.idx = 3
  /\ last.verdict = "suppress"
  /\ last.sigSeen /\ last.pairSeen
  /\ applied[2] = 1 /\ applied[3] = 1

\* C5: a candidate whose signature was seen and that has no preceding
\* candidate sibling is suppressed, whatever adjacency keys the memory holds.
C5_NoContextSuppressed ==
  /\ \A sig \in CandidateSigs \cap processedLineSignatures :
       isContextualDuplicate(processedLineSignatures, processedAdjacentPairs, sig, None)
  /\ (Decided /\ last.sigSeen /\ last.prev = None) => last.verdict = "suppress"

\* a seen line came back at the top of the window while the memory held
\* adjacency keys
C5_Witness ==
  /\ last.verdict = "suppress"
  /\ last.sigSeen
  /\ last.prev = None
  /\ last.idx > 1
  /\ processedAdjacentPairs # {}

\* an earlier row has the signature of row i and followed the same preceding
\* candidate signature
RepeatsEarlierPairing(i) ==
  \E k \in 1..(i - 1) :
    /\ LineSig[log[k]] = LineSig[log[i]]
    /\ IsCandidate[log[k]]
    /\ RowPrevSig(k) = RowPrevSig(i)

\* C6 as stated: every row appended to the log, observed together with its
\* preceding candidate row, has its event applied, also when it repeats the
\* text and icons of an earlier row.
C6_EveryAppendedRowApplied ==
  clears = 0 =>
    \A i \in 1..Len(log) :
      (Done(i) /\ LineEvent[log[i]] # NoEvent /\ RowPrevSig(i) # None) => applied[i] >= 1

\* C6 (amended): a row appended to the log and observed together with its
\* preceding candidate row has its event applied exactly when no earlier row
\* has both the same signature and the same preceding candidate signature;
\* a row that repeats an earlier row and that row's neighbour is suppressed
\* and its event is never applied.
C6_AppliedUnlessPairingRepeats ==
  clears = 0 =>
    \A i \in 1..Len(log) :
      (Done(i) /\ LineEvent[log[i]] # NoEvent /\ RowPrevSig(i) # None)
      => IF RepeatsEarlierPairing(i) THEN applied[i] = 0 ELSE applied[i] = 1

\* three equal rows in a row: the second was applied, the third was not
C6_Witness ==
  /\ clears = 0
  /\ Idle
  /\ Len(log) = 3
  /\ log[1] = log[2] /\ log[2] = log[3]
  /\ LineEvent[log[3]] # NoEvent
  /\ applied = <<1, 1, 0>>
  /\ last.idx = 3
  /\ last.verdict = "suppress"

\* C7: once the filter allows a candidate, its signature and (with a
\* preceding candidate) its adjacency key are in the memory before parseLine
\* runs and stay there when no recognizer matches and when applyEvent fails;
\* a <<sig, prevSig>> allowed since the last clear() is a duplicate from then on.
C7_MarkedBeforeParsing ==
  /\ pc \in {"parse", "apply"} =>
       /\ LineSig[log[cur.idx]] \in processedLineSignatures
       /\ last.prev # None =>
            PairKey(last.prev, LineSig[log[cur.idx]]) \in processedAdjacentPairs
  /\ last.verdict = "allow" =>
       /\ LineSig[log[last.idx]] \in processedLineSignatures
       /\ last.prev # None =>
            PairKey(last.prev, LineSig[log[last.idx]]) \in processedAdjacentPairs
  /\ \A c \in allowedCtx :
       isContextualDuplicate(processedLineSignatures, processedAdjacentPairs, c[1], c[2])

\* applyEvent failed on an allowed line that followed another candidate, and
\* the marks are in place
C7_Witness ==
  /\ Idle
  /\ last.verdict = "allow"
  /\ last.failed
  /\ last.prev # None
  /\ <<LineSig[log[last.idx]], last.prev>> \in allowedCtx
  /\ PairKey(last.prev, LineSig[log[last.idx]]) \in processedAdjacentPairs

\* C8: processNode run again on the candidate it ran on last, with the same
\* preceding candidate, suppresses it and leaves the signature memory, the
\* player records and the dice histogram as the first run left them.
C8_SecondRunSuppressed ==
  [][( /\ AboutToFilter
       /\ Decided
       /\ Head(queue) = last.idx
       /\ HeadPrevSig = last.prev )
     => ( /\ last'.verdict = "suppress"
          /\ pc' = "idle"
          /\ UNCHANGED <<processedLineSignatures, processedAdjacentPairs,
                         players, counts, applied>> )]_vars

\* the newest row was delivered twice: the first run allowed and applied it, the
\* second run suppressed it
C8_Witness ==
  /\ clears = 0
  /\ Idle
  /\ winLo = 1
  /\ Len(log) = 2
  /\ last.idx = 2
  /\ last.verdict = "suppress"
  /\ last.sigSeen /\ last.pairSeen
  /\ log[1] # log[2]
  /\ LineEvent[log[2]] # NoEvent
  /\ applied[2] = 1

\* C9: after clear() the player snapshot is empty, every dice bucket is zero
\* and both signature sets are empty, and the first candidate observed after
\* it is allowed, also when it was processed before clear().
C9_ClearResetsEverything ==
  /\ [](last.verdict = "clear" =>
          /\ DOMAIN players = {}
          /\ \A d \in DiceSums : counts[d] = 0
          /\ processedLineSignatures = {}
          /\ processedAdjacentPairs = {})
  /\ [][(AboutToFilter /\ last.verdict = "clear" /\ IsCandidate[log[Head(queue)]])
        => (last'.verdict = "allow" /\ pc' = "parse")]_vars

\* a row applied before clear() was observed again after it and applied again
C9_Witness ==
  /\ clears = 1
  /\ Idle
  /\ last.verdict = "allow"
  /\ ~last.sigSeen
  /\ applied[last.idx] = 2

RecordSum(r) == r.wood + r.brick + r.sheep + r.wheat + r.ore

\* C10: every player record satisfies total = wood + brick + sheep + wheat + ore.
C10_TotalIsSum ==
  \A n \in DOMAIN players :
    /\ players[n].total = RecordSum(players[n])
    /\ \A k \in ResourceSet : players[n][k] >= 0

\* a player gained resources and then built a road holding no brick
C10_Witness ==
  /\ Idle
  /\ "Alice" \in DOMAIN players
  /\ players["Alice"].total = 1
  /\ players["Alice"].wood = 1
  /\ \E i \in 1..Len(log) :
       LineEvent[log[i]].type = "build" /\ applied[i] >= 1 /\ last.idx = i
  /\ \E n \in DOMAIN players : n # "Alice" /\ players[n].total = 2

\* what the player named in a call held of kind k before the call
HeldOf(pl, name, k) == IF name \in DOMAIN pl THEN pl[name][k] ELSE 0

\* C11: spendResources(name, costs) removes min(have, want) of every kind
\* (nothing of a kind the costs do not name), leaves no count negative,
\* lowers total by the sum of the amounts removed, returns a map holding
\* exactly the amounts removed, and leaves every other player's record alone.
C11_SpendClamp ==
  [][call'.op = "spendResources" =>
       LET name == call'.name
           costs == call'.arg
           Removed(k) == Min(HeldOf(players, name, k), costs[k])
       IN /\ name \in DOMAIN players'
          /\ \A k \in ResourceSet :
               /\ players'[name][k] = HeldOf(players, name, k) - Removed(k)
               /\ players'[name][k] >= 0
               /\ costs[k] = 0 => players'[name][k] = HeldOf(players, name, k)
          /\ players'[name].total =
               HeldBy(players, name)
               - SumSeq([i \in 1..Len(RESOURCE_KEYS) |-> Removed(RESOURCE_KEYS[i])])
          /\ DOMAIN call'.spent = {k \in ResourceSet : Removed(k) > 0}
          /\ \A k \in DOMAIN call'.spent : call'.spent[k] = Removed(k)
          /\ \A other \in (DOMAIN players) \ {name} : players'[other] = players[other]]_vars

\* a player holding one wood and one wheat paid for a city: one wheat was
\* removed, nothing else
C11_Witness ==
  /\ call.op = "spendResources"
  /\ call.arg = Cost(0, 0, 0, 2, 3)
  /\ DOMAIN call.spent = {"wheat"}
  /\ call.spent["wheat"] = 1
  /\ players[call.name].wood = 1
  /\ players[call.name].wheat = 0
  /\ players[call.name].total = 1

\* C12: recordDice(sum) with sum outside 2..12 changes nothing; with sum in
\* 2..12 it adds one to that bucket and leaves the others; the histogram's keys
\* are always 2..12, and a sum recorded n times since the last clear has count n.
C12_DiceHistogramBounds ==
  /\ [](DOMAIN counts = DiceSums)
  /\ [](\A d \in DiceSums :
          counts[d] = IF d \in DOMAIN call.tally THEN call.tally[d] ELSE 0)
  /\ [][call'.op = "recordDice" =>
          IF call'.sum \in DiceSums
          THEN counts' = [counts EXCEPT ![call'.sum] = @ + 1]
          ELSE counts' = counts]_vars

\* 7 was recorded twice, then 13: bucket 7 holds 2 and nothing else changed
C12_Witness ==
  /\ call.op = "recordDice"
  /\ call.sum = 13
  /\ DOMAIN call.tally = {7, 13}
  /\ call.tally[13] = 1
  /\ call.tally[7] = 2
  /\ counts[7] = 2
  /\ \A d \in DiceSums \ {7} : counts[d] = 0

\* processNode is about to apply the event of a line the filter saw for the
\* first time and on which no recognizer threw
ApplyingFirstSeen == pc = "apply" /\ ~last.sigSeen /\ last.threw = {}

\* the element processNode is working on
CurNode == NodeAt(cur.idx)

\* per element: its first token, whether its text has the words "got" and
\* "rolled", and how many of its images show each kind of resource
FirstTokenOf == [l \in NodeIds |-> FirstToken(LineText[l])] @@ <<>>
HasGotWord == [l \in NodeIds |-> ContainsWordI(LineText[l], "got")] @@ <<>>
HasRolledWord == [l \in NodeIds |-> ContainsWordI(LineText[l], "rolled")] @@ <<>>
ImagesOfKind ==
  [x \in NodeIds \X ResourceSet |->
     Cardinality({i \in 1..Len(Nodes[x[1]].imgs) :
                    ContainsI(Nodes[x[1]].imgs[i], IMAGE_HINTS[x[2]])})] @@ <<>>
\* per element: the values of its die-face images
DiceOf == [l \in NodeIds |-> DiceValues(Nodes[l].imgs)] @@ <<>>

\* the step adds the resource images of element n to the record of player
\* name and changes no other record
CreditsImages(n, name) ==
  /\ name \in DOMAIN players'
  /\ \A k \in ResourceSet :
       players'[name][k] = HeldOf(players, name, k) + ImagesOfKind[<<n, k>>]
  /\ players'[name].total =
       HeldBy(players, name)
       + SumSeq([i \in 1..Len(RESOURCE_KEYS) |-> ImagesOfKind[<<n, RESOURCE_KEYS[i]>>]])
  /\ \A other \in (DOMAIN players') \ {name} :
       other \in DOMAIN players /\ players'[other] = players[other]

\* the record of a player who holds the given cards and nothing else
Holding(w, b, s, g, o) ==
  [wood |-> w, brick |-> b, sheep |-> s, wheat |-> g, ore |-> o, total |-> w + b + s + g + o]

\* C13 as stated: the first-seen line "Dave built a" with the image
\* settlement_blue.svg, applied when Dave holds one wood, brick, sheep and
\* wheat, leaves Dave with none of them and total 0.
C13_SettlementSpendsAll ==
  [][( /\ ApplyingFirstSeen
       /\ LineText[CurNode] = "Dave built a"
       /\ Nodes[CurNode].imgs = <<"/img/settlement_blue.svg">>
       /\ "Dave" \in DOMAIN players
       /\ players["Dave"] = Holding(1, 1, 1, 1, 0) )
     => players'["Dave"] = Holding(0, 0, 0, 0, 0)]_vars

\* C14 as stated: a first-seen line whose text has the word "got" adds its
\* resource images, kind by kind, to the record of its first token and
\* changes no other record.
C14_GotCreditsFirstToken ==
  [][(ApplyingFirstSeen /\ HasGotWord[CurNode])
     => CreditsImages(CurNode, FirstTokenOf[CurNode])]_vars

\* element l has an image of some resource kind
HasResourceImage(l) == \E k \in ResourceSet : ImagesOfKind[<<l, k>>] > 0

\* C14 (amended): a first-seen line whose text has the word "got", that has
\* an image of a resource, and that the dice recognizer does not claim (it
\* lacks the word "rolled" or a die-face image), adds its resource images,
\* kind by kind and whatever their order, to the record of its first token
\* and changes no other record; "Carol got" with two lumber cards and a brick
\* card on an empty state gives Carol wood 2, brick 1, total 3.
C14_GotCreditsUnlessDice ==
  /\ [][(ApplyingFirstSeen /\ HasGotWord[CurNode] /\ HasResourceImage(CurNode)
         /\ ~(HasRolledWord[CurNode] /\ DiceOf[CurNode] # <<>>))
        => CreditsImages(CurNode, FirstTokenOf[CurNode])]_vars
  /\ [][(ApplyingFirstSeen /\ LineText[CurNode] = "Carol got" /\ players = NoPlayers
         /\ ImagesOfKind[<<CurNode, "wood">>] = 2 /\ ImagesOfKind[<<CurNode, "brick">>] = 1)
        => (DOMAIN players' = {"Carol"} /\ players'["Carol"] = Holding(2, 1, 0, 0, 0))]_vars

\* "Carol got" with a brick card ahead of two lumber cards was the first line
\* of the session: Carol holds wood 2, brick 1
C14_Witness ==
  /\ pc = "idle"
  /\ last.applied
  /\ last.idx = 1
  /\ Len(log) = 1
  /\ root = 0
  /\ LineText[log[1]] = "Carol got"
  /\ Nodes[log[1]].imgs[1] = "/img/card_brick.svg"
  /\ DOMAIN players = {"Carol"}
  /\ players["Carol"] = Holding(2, 1, 0, 0, 0)

\* the text of element l has the word "rolled" and its die faces sum to a
\* value in 2..12
RollsInRange(l) ==
  HasRolledWord[l] /\ DiceOf[l] # <<>> /\ SumSeq(DiceOf[l]) \in DiceSums

\* C15: a first-seen line with the word "rolled" whose die-face images sum
\* to s in 2..12 yields dice_roll with diceSum s, and applying it adds one to
\* bucket s and leaves the other buckets and every player record alone.
C15_DiceRollCountsOnce ==
  /\ [][(pc = "parse" /\ ~last.sigSeen /\ last'.threw = {} /\ RollsInRange(CurNode))
        => ( /\ pc' = "apply"
             /\ cur'.evt.type = "dice_roll"
             /\ cur'.evt.diceSum = SumSeq(DiceOf[CurNode]) )]_vars
  /\ [][(ApplyingFirstSeen /\ RollsInRange(CurNode))
        => ( /\ counts' = [counts EXCEPT ![SumSeq(DiceOf[CurNode])] = @ + 1]
             /\ players' = players )]_vars

\* "Bob rolled" with the faces 3 and 4 was the first line of the session:
\* bucket 7 holds 1, the others 0, and no player has a record
C15_Witness ==
  /\ pc = "idle"
  /\ root = 0
  /\ Len(log) = 1
  /\ LineText[log[1]] = "Bob rolled"
  /\ DiceOf[log[1]] = <<3, 4>>
  /\ last.idx = 1
  /\ last.applied
  /\ last.evt.type = "dice_roll"
  /\ last.evt.diceSum = 7
  /\ counts = [ZeroCounts EXCEPT ![7] = 1]
  /\ players = NoPlayers

\* per element and recognizer: what the recognizer returns on its own
RecognizedBy ==
  [x \in NodeIds \X ParserNames |-> Recognize(x[2], LineText[x[1]], Nodes[x[1]])] @@ <<>>

\* the order of the recognizers the specification states
StatedOrder == <<"dice_roll", "starting_resources", "got", "build">>

\* the event of the first recognizer, in the stated order, that does not
\* throw and returns an event on element l
FirstWilling(l, throws) ==
  LET hits == {i \in 1..Len(StatedOrder) :
                 /\ StatedOrder[i] \notin throws
                 /\ RecognizedBy[<<l, StatedOrder[i]>>] # NoEvent}
  IN IF hits = {} THEN NoEvent
     ELSE RecognizedBy[<<l, StatedOrder[CHOOSE i \in hits : \A j \in hits : i <= j]>>]

\* C16: parseLine returns the event of the first recognizer that matches in
\* the order dice roll, starting resources, got, build, one event per line at
\* most; a line that both the dice recognizer and the got recognizer match
\* yields dice_roll alone and credits no resources.
C16_FirstMatchWins ==
  /\ [][(pc = "parse" /\ last'.threw = {})
        => ( /\ cur'.evt = FirstWilling(CurNode, {})
             /\ pc' = IF FirstWilling(CurNode, {}) = NoEvent THEN "idle" ELSE "apply" )]_vars
  /\ [][( /\ pc = "apply" /\ last.threw = {}
          /\ RecognizedBy[<<CurNode, "dice_roll">>] # NoEvent
          /\ RecognizedBy[<<CurNode, "got">>] # NoEvent )
        => ( /\ cur.evt.type = "dice_roll"
             /\ players' = players
             /\ last'.evt = cur.evt
             /\ pc' = "idle" )]_vars

\* "Bob rolled and got" with the faces 2 and 6 and an ore card was applied:
\* bucket 8 counts it and Bob has no record
C16_Witness ==
  /\ pc = "idle"
  /\ last.applied
  /\ last.threw = {}
  /\ LineText[NodeAt(last.idx)] = "Bob rolled and got"
  /\ RecognizedBy[<<NodeAt(last.idx), "got">>].resources["ore"] = 1
  /\ last.evt.type = "dice_roll"
  /\ counts[8] >= 1
  /\ "Bob" \notin DOMAIN players

\* C17: a recognizer that throws counts as declining: parseLine goes on with
\* the next recognizer, returns the event of the first one that neither throws
\* nor declines, and that event is applied; the exception does not leave
\* parseLine, so processNode ends as it does without it.
C17_ParserFailureIsLocal ==
  /\ [][pc = "parse"
        => ( /\ cur'.evt = FirstWilling(CurNode, last'.threw)
             /\ pc' = IF FirstWilling(CurNode, last'.threw) = NoEvent THEN "idle" ELSE "apply"
             /\ UNCHANGED <<processedLineSignatures, processedAdjacentPairs, players,
                            counts, queue>> )]_vars
  /\ [][(pc = "apply" /\ last.threw # {})
        => ( /\ last'.applied
             /\ last'.evt = cur.evt
             /\ players' = ApplyPlayers(players, cur.evt)
             /\ counts' = ApplyDice(counts, cur.evt) )]_vars

\* the dice recognizer threw on "Bob rolled and got"; the got recognizer
\* claimed the line and Bob was credited the ore card
C17_Witness ==
  /\ pc = "idle"
  /\ last.applied
  /\ last.threw = {"dice_roll"}
  /\ LineText[NodeAt(last.idx)] = "Bob rolled and got"
  /\ last.evt.type = "got"
  /\ "Bob" \in DOMAIN players
  /\ players["Bob"].ore >= 1
  /\ \A d \in DiceSums : counts[d] = 0

\* the two pushes of one applyEvent whose renders succeed, for aggregates pl, c
BothPushes(pl, c) ==
  <<[to |-> "overlay", players |-> pl, counts |-> ZeroCounts],
    [to |-> "graph", players |-> NoPlayers, counts |-> c]>>

\* C18: an applied event is followed by exactly one push of the player
\* entries and one push of the dice counts, made after the event changed the
\* aggregates, so the pushed values are the post-event ones (given that the
\* presentation layer accepts the pushes); a line that is not a candidate, is
\* suppressed or is claimed by no recognizer causes no push.
C18_RenderPushPerEvent ==
  /\ [][(pc = "apply" /\ ~last'.failed)
        => ( /\ last'.applied
             /\ players' = ApplyPlayers(players, cur.evt)
             /\ counts' = ApplyDice(counts, cur.evt)
             /\ last'.pushes = BothPushes(players', counts') )]_vars
  /\ [][(pc # "apply") => (last'.pushes = last.pushes \/ last'.pushes = NoPushes)]_vars
  /\ [](~last.applied => last.pushes = NoPushes)
  /\ [](last.verdict \in {"skip", "suppress"} => ~last.applied)

\* "Dave got" with four cards was applied: the overlay was handed Dave's
\* record with total 4, the graph the unchanged counts
C18_Witness ==
  /\ pc = "idle"
  /\ last.applied /\ ~last.failed
  /\ last.evt.type = "got"
  /\ Len(last.pushes) = 2
  /\ last.pushes[1].to = "overlay"
  /\ "Dave" \in DOMAIN last.pushes[1].players
  /\ last.pushes[1].players["Dave"].total = 4
  /\ last.pushes[2].to = "graph"
  /\ last.pushes[2].counts = counts

\* the elements inserted after boot: the log past the rows present at boot
LiveRows == (Len(KidsOf(root)) + 1)..Len(log)

\* C19: in the live phase every qualifying element inserted into the watched
\* tree has been entered by processNode once the delivered mutations are
\* handled: the inserted element itself and every qualifying element that
\* arrived inside it.
C19_LiveCoverage ==
  (observing /\ Idle)
    => \A i \in LiveRows :
         /\ IsCandidate[log[i]] => <<i, 0>> \in entered
         /\ \A k \in 1..Len(KidsOf(log[i])) :
              IsCandidate[KidsOf(log[i])[k]] => <<i, k>> \in entered

\* the positions of the elements present at boot, in document order: the
\* container (0), then its rows
BootPositions == IF root = 0 THEN {} ELSE 0..Len(KidsOf(root))

\* C20: the initial enumeration runs the pipeline on the elements present at
\* boot in document order and has handled all of them when the observers are
\* attached; until then the host has inserted nothing, and no inserted
\* element is entered before every element present at boot has been.
C20_BootOrdering ==
  /\ [](~observing => ( /\ log = KidsOf(root)
                        /\ \A e \in entered : e[1] \in BootPositions ))
  /\ [](\A i \in BootPositions :
          <<i, 0>> \in entered => \A j \in BootPositions : j < i => <<j, 0>> \in entered)
  /\ [](observing => \A i \in BootPositions : <<i, 0>> \in entered)
  /\ [](\A e \in entered :
          e[1] \notin BootPositions => \A i \in BootPositions : <<i, 0>> \in entered)
  /\ [][observing' # observing => (pc = "idle" /\ queue = <<>> /\ observing')]_vars

\* the page showed the container of "Dave got" and "Dave built a" at boot;
\* container and rows were scanned, then a row inserted later was processed
C20_Witness ==
  /\ observing
  /\ root \in BlockIds
  /\ KidsOf(root) = <<7, 9>>
  /\ \A i \in 0..2 : <<i, 0>> \in entered
  /\ Len(log) = 3
  /\ <<3, 0>> \in entered
  /\ pc = "idle"

\* C21: canonicalizeBasename returns stem and extension when every segment
\* between them is a run of 6 or more hex characters, and returns the name
\* unchanged for every other name.
C21_CanonicalizeStripsHashOnly ==
  call.op = "canonicalizeBasename"
    => call.out = (IF HashedNameMatch(SplitOn(call.name, "."))
                   THEN SplitOn(call.name, ".")[1] \o "." \o LastOf(SplitOn(call.name, "."))
                   ELSE call.name)

\* the asset each image source of SigIcons shows
IconAsset == [src \in SigIcons |-> IF Contains(src, "lumber") THEN "lumber" ELSE "brick"]

\* how many images of line n show the asset
AssetCount(n, asset) == Cardinality({i \in 1..Len(n.imgs) : IconAsset[n.imgs[i]] = asset})

\* the same icons up to icon order and cache-busting hash segments
SameIcons(a, b) == \A asset \in {"lumber", "brick"} : AssetCount(a, asset) = AssetCount(b, asset)

\* C22: lineSignature depends on the text and the images alone and leaves the
\* signature memory as it is; two lines with the same text and the same icons
\* up to icon order and hash segments have equal signatures, two lines with
\* different texts have different signatures.
C22_SignatureEquality ==
  /\ [](call.op = "lineSignature" =>
          LET a == call.nodes[1]
              b == call.nodes[2]
          IN /\ (a.text = b.text /\ SameIcons(a, b)) => call.sigs[1] = call.sigs[2]
             /\ a.text # b.text => call.sigs[1] # call.sigs[2]
             /\ a = b => call.sigs[1] = call.sigs[2])
  /\ [][call'.op = "lineSignature" =>
          UNCHANGED <<processedLineSignatures, processedAdjacentPairs>>]_vars

\* "Carol got" with [lumber (hashed), brick] and with [brick (hashed, query),
\* lumber] have one signature, while that signature is in the memory
C22_Witness ==
  /\ call.op = "lineSignature"
  /\ call.nodes[1] = [text |-> "Carol got",
                      imgs |-> <<"/img/card_lumber.4f5a8b9c.svg", "card_brick.svg">>]
  /\ call.nodes[2] = [text |-> "Carol got",
                      imgs |-> <<"card_brick.0a1b2c3d4e.svg?v=2", "/img/card_lumber.svg">>]
  /\ call.sigs[1] = call.sigs[2]
  /\ call.sigs[1] = "Carol got | imgs:card_brick.svg,card_lumber.svg"

\* the boot statements that come before startObservers
BeforeObservers == {BootSteps[i] : i \in 1..5}

\* C23: a boot statement that throws ends the boot block: the exception is
\* caught there and goes no further, no later statement of the block runs,
\* and when the statement came before startObservers nothing is observed and
\* nothing happens any more.
C23_BootFailureContained ==
  /\ [](boot.failed # None => (boot.at = "failed" /\ ~boot.propagated))
  /\ [](boot.failed \in BeforeObservers => ~observing)
  /\ [][boot.failed # None => boot' = boot]_vars
  /\ [][boot.failed \in BeforeObservers => UNCHANGED vars]_vars
  /\ [][(boot.at = "initialScan" /\ boot'.at = "failed")
         => (queue' = <<>> /\ pc' = "idle" /\ UNCHANGED <<memoryVars, aggregateVars>>)]_vars

\* initialScan threw after it had processed the container: the rows were
\* never entered and no observer is attached
C23_Witness ==
  /\ boot.failed = "initialScan"
  /\ boot.at = "failed"
  /\ root \in BlockIds
  /\ entered = {<<0, 0>>}
  /\ queue = <<>>
  /\ ~observing

RECURSIVE InsideOf(_)
\* the nodes inside node n: through children, shadow root and frame document
InsideOf(n) ==
  LET next == {Tree[n].children[i] : i \in 1..Len(Tree[n].children)}
                \cup ({Tree[n].shadowRoot, Tree[n].frameDoc} \ {0})
  IN next \cup UNION {InsideOf(k) : k \in next}

\* the content of the frames whose document cannot be read
BlockedContent(blocked) == UNION {InsideOf(f) : f \in blocked}

\* the roots startObservers observes on this page when every frame can be read
ObservedWhenReadable == {1} \cup UNION {Hooks(n, {}) : n \in TreeIds}

SeqToSet(q) == {q[i] : i \in 1..Len(q)}

\* C24: with some frames cross-origin, walkAllNodes yields every node of the
\* tree but the content of those frames, the frame elements and their
\* siblings included, and startObservers observes every root it observes
\* when the frames can be read but those inside such content.
C24_CrossOriginFramesSkipped ==
  /\ (walk.phase \in {"observe", "done"} /\ walk.stack = <<>>)
       => /\ SeqToSet(walk.yielded) = TreeIds \ BlockedContent(walk.blocked)
          /\ walk.observed = ObservedWhenReadable \ BlockedContent(walk.blocked)
  /\ (walk.phase = "walk" /\ walk.stack = <<>>)
       => SeqToSet(walk.yielded) = TreeIds \ BlockedContent(walk.blocked)

\* frame B, inside the shadow tree, is cross-origin: its document and the div
\* in it are the only nodes not yielded; B itself, its sibling 10 and frame
\* A's content are, and document A is observed
C24_Witness ==
  /\ walk.phase = "done"
  /\ walk.blocked = {9}
  /\ SeqToSet(walk.yielded) = TreeIds \ {11, 12}
  /\ walk.observed = {1, 5, 8}

RECURSIVE ClassifiedItems(_)
\* one item per image that an item pattern matches, in image order
ClassifiedItems(imgs) ==
  IF imgs = <<>> THEN <<>>
  ELSE LET file == LastOf(SplitOn(imgs[1], "/"))
           kinds == {k \in 1..Len(ItemKinds) : ItemFileMatch(file, ItemKinds[k])}
       IN (IF ContainsI(file, "icon_bot") \/ kinds = {} THEN <<>>
           ELSE <<ItemKinds[CHOOSE k \in kinds : TRUE]>>)
          \o ClassifiedItems(Tail(imgs))

ItemsOfNode == [n \in NodeIds |-> ClassifiedItems(Nodes[n].imgs)] @@ <<>>

\* C25: the build event of a line lists one item per classified image, and
\* applying it spends the cost of every listed item: k images of one kind
\* spend that kind's cost k times.
C25_BuildItemPerImage ==
  /\ [][(pc = "parse" /\ cur'.evt.type = "build") => cur'.evt.items = ItemsOfNode[CurNode]]_vars
  /\ [][(pc = "apply" /\ cur.evt.type = "build")
         => players' = SpendItems(players, cur.evt.player, ItemsOfNode[CurNode])]_vars

\* C26: every dice_roll event the dice recognizer emits has a sum in 2..12,
\* and applying it adds one to exactly one bucket of the histogram.
C26_DiceSumValidated ==
  /\ [][(pc = "parse" /\ cur'.evt.type = "dice_roll") => cur'.evt.diceSum \in DiceSums]_vars
  /\ [][(pc = "apply" /\ cur.evt.type = "dice_roll")
         => \E d \in DiceSums : counts' = [counts EXCEPT ![d] = @ + 1]]_vars

KnownTypes == {"starting_resources", "got", "dice_roll", "build"}

\* C28: applyEvent on an event of a type other than starting_resources, got,
\* dice_roll and build runs to its end without an error and leaves player
\* records, dice histogram and signature memory unchanged.
C28_UnknownTypeNoOp ==
  [][(call'.op = "applyEvent" /\ last'.evt.type \notin KnownTypes)
      => ( /\ UNCHANGED <<players, counts, processedLineSignatures, processedAdjacentPairs>>
           /\ ~last'.failed
           /\ last'.pushes = BothPushes(players, counts) )]_vars

\* a trade event naming Dave was applied while Dave holds cards, a dice sum
\* is recorded and a signature is in memory
C28_Witness ==
  /\ call.op = "applyEvent"
  /\ last.evt.type = "trade"
  /\ last.evt.player = "Dave"
  /\ "Dave" \in DOMAIN players
  /\ players["Dave"] = [wood |-> 1, brick |-> 1, sheep |-> 0, wheat |-> 0, ore |-> 0, total |-> 2]
  /\ counts[7] = 1
  /\ processedLineSignatures # {}

HasBuiltWord == [l \in NodeIds |-> ContainsWordI(LineText[l], "built a")] @@ <<>>

\* the recognizers registered ahead of the build recognizer decline element l
BuildTurn(l) ==
  \A name \in {"dice_roll", "starting_resources", "got"} : RecognizedBy[<<l, name>>] = NoEvent

\* C29: a line with the words "built a" none of whose images classifies as
\* an item still yields a build event, with no items, and applying it
\* changes no player record, creates none and changes no dice bucket.
C29_BuildWithoutItems ==
  /\ [][( /\ pc = "parse" /\ last'.threw = {}
          /\ HasBuiltWord[CurNode] /\ BuildTurn(CurNode)
          /\ ItemsOfNode[CurNode] = <<>> )
        => ( /\ pc' = "apply"
             /\ cur'.evt.type = "build"
             /\ cur'.evt.player = FirstTokenOf[CurNode]
             /\ cur'.evt.items = <<>> )]_vars
  /\ [][(pc = "apply" /\ cur.evt.type = "build" /\ cur.evt.items = <<>>)
        => ( /\ players' = players
             /\ counts' = counts
             /\ last'.applied )]_vars

\* "Dave built a" with an image no item pattern matches was applied as a build
\* event without items; Dave has no record
C29_Witness ==
  /\ pc = "idle"
  /\ last.applied
  /\ last.evt.type = "build"
  /\ last.evt.player = "Dave"
  /\ last.evt.items = <<>>
  /\ LineText[NodeAt(last.idx)] = "Dave built a"
  /\ players = NoPlayers

\* C30: processNode on a node that is not an element, or whose text is empty
\* or has none of the keywords, returns at once: signature memory, player
\* records and dice histogram are unchanged and nothing is rendered.
C30_CandidateFilterFrame ==
  [][( /\ pc = "idle" /\ queue # <<>>
       /\ LET l == NodeAt(Head(queue))
          IN \/ l \in TextNodeIds
             \/ LineText[l] = ""
             \/ ~CANDIDATE_LINE_REGEX(LineText[l]) )
     => ( /\ UNCHANGED <<processedLineSignatures, processedAdjacentPairs, players, counts>>
          /\ pc' = "idle"
          /\ last'.verdict = "skip"
          /\ last'.pushes = NoPushes )]_vars

\* the text node "Eve got" was handed to processNode after "Carol got" had
\* been applied: nothing changed, its signature is not in the memory
C30_Witness ==
  /\ pc = "idle"
  /\ last.verdict = "skip"
  /\ last.idx = 2
  /\ log = <<10, 15>>
  /\ LineText[15] = "Eve got"
  /\ processedLineSignatures = {LineSig[10]}
  /\ DOMAIN players = {"Carol"}

\* C31: between two calls of clear() no step removes an element from the
\* seen-signature set or the seen-adjacency set, and the signature of every
\* candidate processNode has decided, allowed or suppressed, is in the
\* seen-signature set when processNode returns from the filter.
C31_MemoryMonotone ==
  /\ [][clears' = clears
          => ( /\ processedLineSignatures \subseteq processedLineSignatures'
               /\ processedAdjacentPairs \subseteq processedAdjacentPairs' )]_vars
  /\ [][(AboutToFilter /\ Qualifies(log[Head(queue)]))
          => ( /\ last'.verdict \in {"allow", "suppress"}
               /\ HeadSig \in processedLineSignatures' )]_vars
  /\ [](Decided => LineSig[log[last.idx]] \in processedLineSignatures)

\* a candidate was suppressed while two signatures and an adjacency are
\* remembered and clear() has not run
C31_Witness ==
  /\ clears = 0
  /\ last.verdict = "suppress"
  /\ Cardinality(processedLineSignatures) >= 2
  /\ processedAdjacentPairs # {}
  /\ LineSig[log[last.idx]] \in processedLineSignatures

\* C32: applying a got or starting_resources event for a player leaves that
\* player with a record, and between two calls of clear() no step removes a
\* player's record, whatever events are applied, builds the player cannot
\* pay for included.
C32_PlayersNeverDropped ==
  /\ [][(pc = "apply" /\ cur.evt.type \in {"got", "starting_resources"})
          => cur.evt.player \in DOMAIN players']_vars
  /\ [][clears' = clears => DOMAIN players \subseteq DOMAIN players']_vars

\* Alice got one lumber and then built a road she could not pay for in full:
\* her record is still there, with nothing left
C32_Witness ==
  /\ clears = 0
  /\ last.applied
  /\ last.evt.type = "build"
  /\ last.evt.player = "Alice"
  /\ last.evt.items = <<"road">>
  /\ "Alice" \in DOMAIN players
  /\ players["Alice"].total = 0
  /\ applied[1] = 1
  /\ log[1] = 1

\* C33: applying dice_roll leaves every player record as it is; applying got,
\* starting_resources or build leaves every dice bucket as it is and touches
\* no record but that of the player the event names.
C33_OwnEventsOnly ==
  /\ [][(pc = "apply" /\ cur.evt.type = "dice_roll") => players' = players]_vars
  /\ [][(pc = "apply" /\ cur.evt.type \in {"got", "starting_resources", "build"})
          => ( /\ counts' = counts
               /\ DOMAIN players' \subseteq (DOMAIN players) \cup {cur.evt.player}
               /\ \A n \in (DOMAIN players) \ {cur.evt.player} :
                    n \in DOMAIN players' /\ players'[n] = players[n] )]_vars

\* Bob received grain and brick and rolled 7, then "Alice got" was applied:
\* Bob's record and the histogram are as they were
C33_Witness ==
  /\ last.applied
  /\ last.evt.type = "got"
  /\ last.evt.player = "Alice"
  /\ DOMAIN players = {"Alice", "Bob"}
  /\ players["Bob"] = [wood |-> 0, brick |-> 1, sheep |-> 0, wheat |-> 1, ore |-> 0, total |-> 2]
  /\ players["Alice"].wood = 1
  /\ counts = [ZeroCounts EXCEPT ![7] = 1]

RECURSIVE Preorder(_)
\* the nodes of the tree under n in document order: n, then the subtrees of
\* its children, first to last
Preorder(n) ==
  LET RECURSIVE Kids(_)
      Kids(q) == IF q = <<>> THEN <<>> ELSE Preorder(Head(q)) \o Kids(Tail(q))
  IN <<n>> \o Kids(Tree[n].children)

\* the roots of the light trees of the page: the documents and shadow roots
LightRoots == {n \in TreeIds : Tree[n].kind \in {"document", "shadow"}}

\* the nodes of q that belong to the light tree under r, in the order of q
YieldedOf(q, r) == SelectSeq(q, LAMBDA n : n \in SeqToSet(Preorder(r)))

IsPrefix(a, b) == Len(a) <= Len(b) /\ a = SubSeq(b, 1, Len(a))

\* C35: a walk yields no node twice and holds on its stack only nodes not
\* yet yielded, each once, so it ends within as many turns as the tree has
\* nodes; when it ends it has yielded the root and every node reachable
\* through children, shadow roots and readable frame documents; every
\* embedded document is entered at most once; the nodes of each light tree
\* are yielded in document order.
C35_WalkYieldsEachOnce ==
  LET ys == walk.yielded
      st == walk.stack
  IN /\ \A i, j \in 1..Len(ys) : ys[i] = ys[j] => i = j
     /\ \A i, j \in 1..Len(st) : st[i] = st[j] => i = j
     /\ SeqToSet(ys) \cap SeqToSet(st) = {}
     /\ Len(ys) <= Cardinality(TreeIds)
     /\ walk.seenDocs \subseteq SeqToSet(ys) \cup SeqToSet(st)
     /\ (walk.phase \in {"walk", "observe", "done"} /\ st = <<>>)
          => SeqToSet(ys) = {1} \cup (InsideOf(1) \ BlockedContent(walk.blocked))
     /\ \A r \in LightRoots : IsPrefix(YieldedOf(ys, r), Preorder(r))

\* every frame readable: the walk of initialScan is over and went through the
\* children of the page first, then nested frame C inside frame A, then the
\* slotted child of the shadow host before its shadow tree
C35_Witness ==
  /\ walk.phase = "walk"
  /\ walk.blocked = {}
  /\ walk.stack = <<>>
  /\ walk.yielded = <<1, 2, 3, 4, 5, 6, 13, 14, 15, 7, 16, 8, 9, 11, 12, 10>>
  /\ walk.seenDocs = {5, 11, 14}

\* the filter is about to return true for the candidate at the head of the
\* queue: its signature was seen, and there is no preceding candidate or the
\* adjacency key was seen too
AboutToSuppress ==
  /\ AboutToFilter
  /\ Qualifies(log[Head(queue)])
  /\ HeadSig \in processedLineSignatures
  /\ (Falsy(HeadPrevSig) \/ PairKey(HeadPrevSig, HeadSig) \in processedAdjacentPairs)

\* C36: processNode on a candidate the duplicate filter suppresses returns
\* with the seen-signature set, the seen-adjacency set, every player record
\* and the dice histogram as they were, and nothing is pushed to the
\* presentation layer: neither parseLine nor applyEvent runs for it.
C36_SuppressionChangesNothing ==
  /\ [][AboutToSuppress
          => ( /\ last'.verdict = "suppress"
               /\ last'.pushes = NoPushes
               /\ ~last'.applied
               /\ pc' = "idle"
               /\ UNCHANGED <<processedLineSignatures, processedAdjacentPairs,
                              players, counts, applied, cur, allowedCtx>> )]_vars
  /\ []((last.verdict = "suppress")
          => (last.pushes = NoPushes /\ ~last.applied /\ last.evt = NoEvent /\ pc = "idle"))

\* "Alice got" [lumber] was applied, then delivered again without a
\* preceding candidate and suppressed by the fallback: Alice still holds one
\* lumber and the row counts as applied once
C36_Witness ==
  /\ clears = 0
  /\ Idle
  /\ log = <<1>>
  /\ last.verdict = "suppress"
  /\ last.sigSeen /\ ~last.pairSeen /\ Falsy(last.prev)
  /\ applied = <<1>>
  /\ players["Alice"].total = 1
  /\ processedAdjacentPairs = {}

\* C37: fed the same candidates from empty memories, the contextual filter
\* and the superseded global-set filter hold the same set of seen signatures
\* after every candidate; what the global-set filter allows the contextual
\* filter allows, and what the contextual filter suppresses the global-set
\* filter suppresses.
C37_ContextualRefinesGlobal ==
  /\ call.out.seen = processedLineSignatures
  /\ call.out.global = "allow" => call.out.contextual = "allow"
  /\ call.out.contextual = "suppress" => call.out.global = "suppress"
  /\ call.op = "feed" => {call.out.global, call.out.contextual} \subseteq {"allow", "suppress"}

\* "Carol got" came again as another row after "Alice got": the global-set
\* filter suppressed it, the contextual filter let it through on the new
\* adjacency, and both sets hold the same two signatures
C37_Witness ==
  /\ call.op = "feed"
  /\ call.nodes = <<11, 1>>
  /\ call.out.global = "suppress"
  /\ call.out.contextual = "allow"
  /\ processedLineSignatures = {LineSig[1], LineSig[10]}
  /\ call.out.seen = processedLineSignatures
  /\ PairKey(LineSig[1], LineSig[11]) \in processedAdjacentPairs

RECURSIVE RowIcons(_, _, _)
\* how many images of kind k the rows of the sequence rows show whose first
\* token is name
RowIcons(rows, name, k) ==
  IF rows = <<>> THEN 0
  ELSE (IF FirstTokenOf[Head(rows)] = name THEN ImagesOfKind[<<Head(rows), k>>] ELSE 0)
       + RowIcons(Tail(rows), name, k)

\* C38: with the rows of the log inside a container whose text includes
\* theirs, no player record holds more of a kind of resource than the rows
\* that start with the player's name show icons of that kind: every icon is
\* credited at most once, and to the player its row names.
C38_NoDoubleCreditThroughContainers ==
  \A name \in DOMAIN players : \A k \in ResourceSet :
    players[name][k] <= RowIcons(log, name, k)

====
